---- MODULE Spec2Model ----
(***************************************************************************)
(* npgsql-mon: the accordion navigation and scroll-state engine of run_tui *)
(* (src/src/main.rs), with the grouping and flattening functions it calls. *)
(*                                                                         *)
(* Strings are sequences of character codes (ASCII), so that ordering,     *)
(* lower-casing, concatenation and substring search are computed as the    *)
(* Rust code computes them.  Option<T> is a sequence of length 0 (None) or *)
(* 1 (Some(x)).                                                            *)
(***************************************************************************)
EXTENDS Integers, Sequences, FiniteSets, TLC

VARIABLES
    chan,                \* mpsc channel: lines sent by the listener, not yet received
    sent,                \* number of lines the listener has sent so far (arrival stamp)
    log_lines,           \* Vec<SqlLogMessage>
    log_buffer,          \* Vec<String>: lines held back during scroll mode
    expanded_uids,       \* HashSet<String>
    expanded_groups,     \* HashSet<RequestGroup>
    pinned_groups,       \* HashSet<RequestGroup>
    selected,            \* list_state.selected(), always Some(n) in run_tui
    main_scroll_offset,
    scroll_mode,
    scroll_offsets,      \* HashMap<usize, usize>, keyed by actual_index
    scroll_cursors,      \* HashMap<usize, usize>, keyed by actual_index
    copy_flash_state,    \* Option<actual_index>
    filter_text,
    filter_focused,
    help_screen_visible,
    selected_uid,        \* Option<String>
    last_list_height,
    pc,                  \* position of run_tui: "top", "poll", "quit", "error", "panic";
                         \* "call", "return" around a function checked alone
    keys,                \* number of key presses handled so far
    grouped_messages,    \* result of the last from_messages call observed
    flat_items,          \* result of the last create_flat_navigation_structure call observed
    returned             \* value returned by another function checked alone

vars == <<chan, sent, log_lines, log_buffer, expanded_uids, expanded_groups,
          pinned_groups, selected, main_scroll_offset, scroll_mode,
          scroll_offsets, scroll_cursors, copy_flash_state,
          filter_text, filter_focused, help_screen_visible, selected_uid,
          last_list_height, pc, keys, grouped_messages, flat_items, returned>>

----------------------------------------------------------------------------
(* Bounds of the model *)

\* the 1000-record cap of log_lines, scaled down so that eviction is reached
MaxLogLines == 2
\* lines the listener sends in one behaviour
MaxSent == 3
\* key presses handled in one behaviour
MaxKeys == 5
\* characters the filter text may hold
MaxFilterLen == 1
\* records in the input of the grouping / flattening functions checked alone
MaxMsgs == 3

----------------------------------------------------------------------------
(* Strings *)

None == << >>
Some(x) == << x >>
IsNone(o) == Len(o) = 0
IsSome(o) == Len(o) = 1
Unwrap(o) == o[1]

S_GET == << 71, 69, 84 >>
S_POST == << 80, 79, 83, 84 >>
S_CALL == << 67, 65, 76, 76 >>
S_NA == << 78, 47, 65 >>
S_UNKNOWN == << 85, 78, 75, 78, 79, 87, 78 >>
S_IN == << 105, 110, 32 >>
S_SP_IN == << 32, 105, 110, 32 >>
S_DASH == << 45 >>
S_SLASH_A == << 47, 97 >>
S_m == << 109 >>
S_C == << 67 >>
S_1 == << 49 >>
S_2 == << 50 >>
S_3 == << 51 >>

\* str::to_lowercase on ASCII text
ToLower(s) == [i \in 1..Len(s) |-> IF s[i] \in 65..90 THEN s[i] + 32 ELSE s[i]]

\* str::contains
Contains(hay, needle) ==
    \E i \in 0..(Len(hay) - Len(needle)) : SubSeq(hay, i + 1, i + Len(needle)) = needle

\* Ord for String: lexicographic on the bytes; -1 Less, 0 Equal, 1 Greater
RECURSIVE StrCmp(_, _)
StrCmp(a, b) ==
    IF Len(a) = 0 /\ Len(b) = 0 THEN 0
    ELSE IF Len(a) = 0 THEN -1
    ELSE IF Len(b) = 0 THEN 1
    ELSE IF a[1] < b[1] THEN -1
    ELSE IF a[1] > b[1] THEN 1
    ELSE StrCmp(Tail(a), Tail(b))

\* Ord for Option<&String>: None is less than every Some
OptCmp(a, b) ==
    IF IsNone(a) /\ IsNone(b) THEN 0
    ELSE IF IsNone(a) THEN -1
    ELSE IF IsNone(b) THEN 1
    ELSE StrCmp(Unwrap(a), Unwrap(b))

\* format!("{}", n) for a usize
RECURSIVE ToDecimal(_)
ToDecimal(n) ==
    IF n < 10 THEN << 48 + n >> ELSE ToDecimal(n \div 10) \o << 48 + (n % 10) >>

\* the maximum of a non-empty set of strings
StrMax(S) == CHOOSE s \in S : \A t \in S : StrCmp(t, s) <= 0

----------------------------------------------------------------------------
(* RequestGroup *)

RequestGroupFromMessageCallerMethodOnly(msg) ==
    LET caller_info ==
            IF IsSome(msg.caller_method) THEN Unwrap(msg.caller_method)
            ELSE IF IsSome(msg.caller_class) THEN S_IN \o Unwrap(msg.caller_class)
            ELSE S_NA
    IN  IF IsNone(msg.http_method)
            THEN [endpoint |-> caller_info, http_method |-> S_CALL]
            ELSE [endpoint |-> IF IsSome(msg.endpoint) THEN Unwrap(msg.endpoint) ELSE S_NA,
                  http_method |-> Unwrap(msg.http_method)]

\* RequestGroup::from_message
RequestGroupFromMessage(msg) ==
    LET caller_info ==
            IF IsSome(msg.caller_method) /\ IsSome(msg.caller_class)
                THEN Unwrap(msg.caller_method) \o S_SP_IN \o Unwrap(msg.caller_class)
            ELSE IF IsSome(msg.caller_method) THEN Unwrap(msg.caller_method)
            ELSE IF IsSome(msg.caller_class) THEN S_IN \o Unwrap(msg.caller_class)
            ELSE S_NA
    IN  IF IsNone(msg.http_method)
            THEN [endpoint |-> caller_info, http_method |-> S_CALL]
            ELSE [endpoint |-> IF IsSome(msg.endpoint) THEN Unwrap(msg.endpoint) ELSE S_NA,
                  http_method |-> IF IsSome(msg.http_method) THEN Unwrap(msg.http_method)
                                  ELSE S_UNKNOWN]

----------------------------------------------------------------------------
(* GroupedLogMessages::from_messages *)

\* the buckets of group_map: every key with its records in message order
KeysOf(messages) == {RequestGroupFromMessage(messages[i]) : i \in 1..Len(messages)}

BucketFirstOnly(messages, key) ==
    LET bucket == SelectSeq(messages, LAMBDA m : RequestGroupFromMessage(m) = key)
    IN  IF Len(bucket) = 0 THEN bucket ELSE << bucket[1] >>

Bucket(messages, key) ==
    SelectSeq(messages, LAMBDA m : RequestGroupFromMessage(m) = key)

\* the orders in which HashMap::into_iter may yield the buckets
RECURSIVE Perms(_)
Perms(S) ==
    IF S = {} THEN {<< >>}
    ELSE UNION {{<< x >> \o p : p \in Perms(S \ {x})} : x \in S}

BucketOrders(messages) == Perms(KeysOf(messages))

LatestTimestamp(group) ==
    IF Len(group[2]) = 0 THEN None
    ELSE Some(StrMax({group[2][i].timestamp : i \in 1..Len(group[2])}))

GroupCmpIgnoringPins(a, b, pinned) ==
    LET timestamp_cmp == OptCmp(LatestTimestamp(b), LatestTimestamp(a))
        endpoint_cmp == StrCmp(a[1].endpoint, b[1].endpoint)
    IN  IF timestamp_cmp = 0
            THEN IF endpoint_cmp = 0
                    THEN StrCmp(a[1].http_method, b[1].http_method)
                    ELSE endpoint_cmp
            ELSE timestamp_cmp

GroupCmpNoTieBreak(a, b, pinned) ==
    LET a_pinned == a[1] \in pinned
        b_pinned == b[1] \in pinned
    IN  IF a_pinned /\ ~b_pinned THEN -1
        ELSE IF ~a_pinned /\ b_pinned THEN 1
        ELSE OptCmp(LatestTimestamp(b), LatestTimestamp(a))

GroupCmpMethodBeforeEndpoint(a, b, pinned) ==
    LET a_pinned == a[1] \in pinned
        b_pinned == b[1] \in pinned
        timestamp_cmp == OptCmp(LatestTimestamp(b), LatestTimestamp(a))
        method_cmp == StrCmp(a[1].http_method, b[1].http_method)
    IN  IF a_pinned /\ ~b_pinned THEN -1
        ELSE IF ~a_pinned /\ b_pinned THEN 1
        ELSE IF timestamp_cmp = 0
            THEN IF method_cmp = 0
                    THEN StrCmp(a[1].endpoint, b[1].endpoint)
                    ELSE method_cmp
            ELSE timestamp_cmp

\* the comparator closure of groups.sort_by
GroupCmp(a, b, pinned) ==
    LET a_pinned == a[1] \in pinned
        b_pinned == b[1] \in pinned
        timestamp_cmp == OptCmp(LatestTimestamp(b), LatestTimestamp(a))
        endpoint_cmp == StrCmp(a[1].endpoint, b[1].endpoint)
    IN  IF a_pinned /\ ~b_pinned THEN -1
        ELSE IF ~a_pinned /\ b_pinned THEN 1
        ELSE IF timestamp_cmp = 0
            THEN IF endpoint_cmp = 0
                    THEN StrCmp(a[1].http_method, b[1].http_method)
                    ELSE endpoint_cmp
            ELSE timestamp_cmp

\* slice::sort_by is a stable sort: x goes before the first element it is Less than
RECURSIVE InsertGroup(_, _, _)
InsertGroup(sorted, x, pinned) ==
    IF Len(sorted) = 0 THEN << x >>
    ELSE IF GroupCmp(x, sorted[Len(sorted)], pinned) < 0
        THEN InsertGroup(SubSeq(sorted, 1, Len(sorted) - 1), x, pinned)
                \o << sorted[Len(sorted)] >>
        ELSE Append(sorted, x)

RECURSIVE SortGroups(_, _)
SortGroups(groups, pinned) ==
    IF Len(groups) = 0 THEN << >>
    ELSE InsertGroup(SortGroups(SubSeq(groups, 1, Len(groups) - 1), pinned),
                     groups[Len(groups)], pinned)

\* from_messages, with `order` the order in which the hash map yields its buckets
FromMessages(messages, pinned, order) ==
    SortGroups([i \in 1..Len(order) |-> << order[i], Bucket(messages, order[i]) >>], pinned)

----------------------------------------------------------------------------
(* create_flat_navigation_structure *)

MatchesFilterCaseSensitive(msg, filter) ==
    LET method_match ==
            IF IsNone(msg.http_method) THEN Contains(S_CALL, filter)
            ELSE Contains(Unwrap(msg.http_method), filter)
        endpoint_match == IsSome(msg.endpoint) /\ Contains(Unwrap(msg.endpoint), filter)
        caller_class_match ==
            IsSome(msg.caller_class) /\ Contains(Unwrap(msg.caller_class), filter)
        caller_method_match ==
            IsSome(msg.caller_method) /\ Contains(Unwrap(msg.caller_method), filter)
    IN  method_match \/ endpoint_match \/ caller_class_match \/ caller_method_match

\* the filter closure
MatchesFilter(msg, filter) ==
    LET f == ToLower(filter)
        method_match ==
            IF IsNone(msg.http_method) THEN Contains(ToLower(S_CALL), f)
            ELSE Contains(ToLower(Unwrap(msg.http_method)), f)
        endpoint_match ==
            IsSome(msg.endpoint) /\ Contains(ToLower(Unwrap(msg.endpoint)), f)
        caller_class_match ==
            IsSome(msg.caller_class) /\ Contains(ToLower(Unwrap(msg.caller_class)), f)
        caller_method_match ==
            IsSome(msg.caller_method) /\ Contains(ToLower(Unwrap(msg.caller_method)), f)
    IN  method_match \/ endpoint_match \/ caller_class_match \/ caller_method_match

FilteredMessages(messages, filter) ==
    IF Len(filter) = 0 THEN messages
    ELSE SelectSeq(messages, LAMBDA m : MatchesFilter(m, filter))

\* sorted_messages.sort_by(|a, b| b.timestamp.cmp(&a.timestamp)), stable
RECURSIVE InsertMessage(_, _)
InsertMessage(sorted, x) ==
    IF Len(sorted) = 0 THEN << x >>
    ELSE IF StrCmp(sorted[Len(sorted)].timestamp, x.timestamp) < 0
        THEN InsertMessage(SubSeq(sorted, 1, Len(sorted) - 1), x) \o << sorted[Len(sorted)] >>
        ELSE Append(sorted, x)

RECURSIVE SortMessages(_)
SortMessages(messages) ==
    IF Len(messages) = 0 THEN << >>
    ELSE InsertMessage(SortMessages(SubSeq(messages, 1, Len(messages) - 1)),
                       messages[Len(messages)])

GroupHeader(group) == [kind |-> "GroupHeader", group |-> group]
Message(msg) == [kind |-> "Message", msg |-> msg]

GroupRowsHeaderLast(group, expanded, filter) ==
    LET filtered_messages == FilteredMessages(group[2], filter)
    IN  IF Len(filtered_messages) = 0 THEN << >>
        ELSE (IF group[1] \in expanded
                 THEN [i \in 1..Len(filtered_messages) |->
                          Message(SortMessages(filtered_messages)[i])]
                 ELSE << >>)
             \o << GroupHeader(group[1]) >>

GroupRowsUnsorted(group, expanded, filter) ==
    LET filtered_messages == FilteredMessages(group[2], filter)
    IN  IF Len(filtered_messages) = 0 THEN << >>
        ELSE << GroupHeader(group[1]) >> \o
             (IF group[1] \in expanded
                 THEN [i \in 1..Len(filtered_messages) |-> Message(filtered_messages[i])]
                 ELSE << >>)

\* the body of the loop over grouped_messages.groups
GroupRows(group, expanded, filter) ==
    LET filtered_messages == FilteredMessages(group[2], filter)
    IN  IF Len(filtered_messages) = 0 THEN << >>
        ELSE << GroupHeader(group[1]) >> \o
             (IF group[1] \in expanded
                 THEN [i \in 1..Len(filtered_messages) |->
                          Message(SortMessages(filtered_messages)[i])]
                 ELSE << >>)

RECURSIVE CreateFlatNavigationStructure(_, _, _)
CreateFlatNavigationStructure(groups, expanded, filter) ==
    IF Len(groups) = 0 THEN << >>
    ELSE CreateFlatNavigationStructure(SubSeq(groups, 1, Len(groups) - 1), expanded, filter)
            \o GroupRows(groups[Len(groups)], expanded, filter)

\* count_total_rendered_items
CountTotalRenderedItems(groups, expanded, filter) ==
    Len(CreateFlatNavigationStructure(groups, expanded, filter))

----------------------------------------------------------------------------
(* The statement text and its content-line total *)

\* A statement is its sequence of lines.  A line is a batch marker line (it
\* starts with "[-- Batch Command"), a blank line, or a line of SQL; fmt is the
\* number of lines sqlformat::format lays that line of SQL out on.
BatchLine == [kind |-> "batch", fmt |-> 0]
BlankLine == [kind |-> "blank", fmt |-> 0]
SqlLine(n) == [kind |-> "sql", fmt |-> n]

\* statement.contains("[-- Batch Command")
ContainsBatchMarker(statement) == \E i \in 1..Len(statement) : statement[i].kind = "batch"

\* !sql.trim().is_empty()
NonBlank(sql) == \E i \in 1..Len(sql) : sql[i].kind = "sql"

\* format(sql.trim(), ..).lines().count()
RECURSIVE FormattedLineCount(_)
FormattedLineCount(sql) ==
    IF Len(sql) = 0 THEN 0 ELSE sql[1].fmt + FormattedLineCount(Tail(sql))

\* the count added for one piece of SQL: formatted lines, else raw lines, at least 1
ContentLineCount(sql) ==
    IF FormattedLineCount(sql) = 0
        THEN (IF Len(sql) > 1 THEN Len(sql) ELSE 1)
        ELSE FormattedLineCount(sql)

\* the loop over statement.lines() of the scroll handlers, then the final batch
RECURSIVE BatchTotalLines(_, _, _)
BatchTotalLines(lines, current_batch_sql, total_lines) ==
    IF Len(lines) = 0
        THEN IF NonBlank(current_batch_sql)
                THEN total_lines + 1 + ContentLineCount(current_batch_sql)
                ELSE total_lines
    ELSE IF lines[1].kind = "batch"
        THEN BatchTotalLines(Tail(lines), << >>,
                IF NonBlank(current_batch_sql)
                    THEN total_lines + 1 + ContentLineCount(current_batch_sql) + 1
                    ELSE total_lines)
        ELSE BatchTotalLines(Tail(lines), Append(current_batch_sql, lines[1]), total_lines)

\* total_lines of the j handler of scroll mode
TotalLines(statement) ==
    IF ContainsBatchMarker(statement)
        THEN BatchTotalLines(statement, << >>, 0)
        ELSE ContentLineCount(statement) + 1

\* the Ctrl+d handler's own copy of the loop over statement.lines()
RECURSIVE PageBatchTotalLines(_, _, _)
PageBatchTotalLines(lines, current_batch_sql, total_lines) ==
    IF Len(lines) = 0
        THEN IF NonBlank(current_batch_sql)
                THEN total_lines + 1 + ContentLineCount(current_batch_sql)
                ELSE total_lines
    ELSE IF lines[1].kind = "batch"
        THEN PageBatchTotalLines(Tail(lines), << >>,
                IF NonBlank(current_batch_sql)
                    THEN total_lines + 1 + ContentLineCount(current_batch_sql) + 1
                    ELSE total_lines)
        ELSE PageBatchTotalLines(Tail(lines), Append(current_batch_sql, lines[1]),
                                 total_lines)

\* total_lines of the Ctrl+d handler of scroll mode
PageTotalLines(statement) ==
    IF ContainsBatchMarker(statement)
        THEN PageBatchTotalLines(statement, << >>, 0)
        ELSE ContentLineCount(statement) + 1

\* extract_batch_statement_at_cursor, first loop and the final batch: the
\* (line_count, current_batch_sql) pairs pushed to batch_statements
RECURSIVE BatchStatements(_, _, _, _)
BatchStatements(lines, current_batch_sql, line_count, batch_statements) ==
    LET pushed == Append(batch_statements,
                         [start_line |-> line_count, batch_sql |-> current_batch_sql])
    IN  IF Len(lines) = 0
            THEN IF NonBlank(current_batch_sql) THEN pushed ELSE batch_statements
        ELSE IF lines[1].kind = "batch"
            THEN IF NonBlank(current_batch_sql)
                    THEN BatchStatements(Tail(lines), << >>,
                            line_count + 1 + ContentLineCount(current_batch_sql) + 1, pushed)
                    ELSE BatchStatements(Tail(lines), << >>, line_count, batch_statements)
        ELSE BatchStatements(Tail(lines), Append(current_batch_sql, lines[1]),
                             line_count, batch_statements)

\* a piece of text handed to the clipboard: the formatter's output for sql when
\* that is not blank (formatted), else sql as it is
FormattedOrRaw(sql) == [formatted |-> FormattedLineCount(sql) # 0, sql |-> sql]

\* the text handed over as it is, without a try at formatting it
Unformatted(text) == [formatted |-> FALSE, sql |-> text]

EndLineNoSeparator(start_line, batch_sql) == start_line + 1 + ContentLineCount(batch_sql)

\* end_line: header + content + separator
EndLine(start_line, batch_sql) == start_line + 1 + ContentLineCount(batch_sql) + 1

\* extract_batch_statement_at_cursor, second loop and the fallback
RECURSIVE BatchAtCursor(_, _, _)
BatchAtCursor(batch_statements, cursor_pos, statement) ==
    IF Len(batch_statements) = 0
        THEN Unformatted(statement)
    ELSE LET start_line == batch_statements[1].start_line
             batch_sql == batch_statements[1].batch_sql
         IN  IF cursor_pos >= start_line /\ cursor_pos < EndLine(start_line, batch_sql)
                 THEN FormattedOrRaw(batch_sql)
                 ELSE BatchAtCursor(Tail(batch_statements), cursor_pos, statement)

ExtractBatchStatementAtCursor(statement, cursor_pos) ==
    BatchAtCursor(BatchStatements(statement, << >>, 0, << >>), cursor_pos, statement)

\* text_to_copy of the y handler of scroll mode
TextToCopy(statement, cursor_pos) ==
    IF ContainsBatchMarker(statement)
        THEN ExtractBatchStatementAtCursor(statement, cursor_pos)
        ELSE FormattedOrRaw(statement)

\* a - b on usize with saturating_sub
SatSub(a, b) == IF a > b THEN a - b ELSE 0

Min(a, b) == IF a < b THEN a ELSE b
Max(a, b) == IF a > b THEN a ELSE b

\* dynamic_max_expanded_height
DynamicMaxExpandedHeight(list_height) == Max(SatSub(SatSub(list_height, 4), 5), 10)

\* HashMap get(..).cloned().unwrap_or(0) and insert
MapGet(m, k) == IF k \in DOMAIN m THEN m[k] ELSE 0
MapPut(m, k, v) == [x \in (DOMAIN m) \cup {k} |-> IF x = k THEN v ELSE m[x]]
EmptyMap == [x \in {} |-> 0]

----------------------------------------------------------------------------
(* render_accordion_item: the content lines of an expanded record and the *)
(* window of them that is displayed                                       *)

\* render_sql_lines(sql, ..).len(): the formatted lines; when the formatter
\* gives nothing, one "(empty statement)" line for blank text, else the raw lines
RenderSqlLineCount(sql) ==
    IF FormattedLineCount(sql) = 0
        THEN (IF NonBlank(sql) THEN Len(sql) ELSE 1)
        ELSE FormattedLineCount(sql)

RECURSIVE RenderBatchLinesFinalSeparator(_, _, _)
RenderBatchLinesFinalSeparator(lines, current_batch_sql, pushed) ==
    IF Len(lines) = 0
        THEN IF NonBlank(current_batch_sql)
                THEN pushed + 1 + RenderSqlLineCount(current_batch_sql) + 1
                ELSE pushed
    ELSE IF lines[1].kind = "batch"
        THEN RenderBatchLinesFinalSeparator(Tail(lines), << >>,
                IF NonBlank(current_batch_sql)
                    THEN pushed + 1 + RenderSqlLineCount(current_batch_sql) + 1
                    ELSE pushed)
        ELSE RenderBatchLinesFinalSeparator(Tail(lines), Append(current_batch_sql, lines[1]),
                                            pushed)

\* the loop over line.statement.lines() of the renderer, then the final batch:
\* the number of lines pushed to all_content_lines
RECURSIVE RenderBatchLines(_, _, _)
RenderBatchLines(lines, current_batch_sql, pushed) ==
    IF Len(lines) = 0
        THEN IF NonBlank(current_batch_sql)
                THEN pushed + 1 + RenderSqlLineCount(current_batch_sql)
                ELSE pushed
    ELSE IF lines[1].kind = "batch"
        THEN RenderBatchLines(Tail(lines), << >>,
                IF NonBlank(current_batch_sql)
                    THEN pushed + 1 + RenderSqlLineCount(current_batch_sql) + 1
                    ELSE pushed)
        ELSE RenderBatchLines(Tail(lines), Append(current_batch_sql, lines[1]), pushed)

\* the positions in all_content_lines of the "[-- Batch Command n]" headers the
\* batch loop pushes, in the order pushed
RECURSIVE RenderBatchHeaders(_, _, _, _)
RenderBatchHeaders(lines, current_batch_sql, pushed, headers) ==
    IF Len(lines) = 0
        THEN IF NonBlank(current_batch_sql) THEN Append(headers, pushed) ELSE headers
    ELSE IF lines[1].kind = "batch"
        THEN IF NonBlank(current_batch_sql)
                THEN RenderBatchHeaders(Tail(lines), << >>,
                        pushed + 1 + RenderSqlLineCount(current_batch_sql) + 1,
                        Append(headers, pushed))
                ELSE RenderBatchHeaders(Tail(lines), << >>, pushed, headers)
        ELSE RenderBatchHeaders(Tail(lines), Append(current_batch_sql, lines[1]),
                                pushed, headers)

\* all_content_lines.len()
TotalContentLines(statement) ==
    IF ContainsBatchMarker(statement)
        THEN RenderBatchLines(statement, << >>, 0)
        ELSE RenderSqlLineCount(statement) + 1

ClampedScrollOffsetUnclamped(stored, total_content_lines, max_expanded_height) == stored

ClampedScrollOffsetOneShort(stored, total_content_lines, max_expanded_height) ==
    LET max_scroll_offset == SatSub(total_content_lines, max_expanded_height)
    IN  IF total_content_lines <= max_expanded_height THEN 0
        ELSE IF stored >= max_scroll_offset THEN max_scroll_offset - 1
        ELSE stored

\* the clamp of the stored scroll offset done on every render
ClampedScrollOffset(stored, total_content_lines, max_expanded_height) ==
    LET max_scroll_offset == SatSub(total_content_lines, max_expanded_height)
    IN  IF total_content_lines <= max_expanded_height THEN 0
        ELSE IF stored > max_scroll_offset THEN max_scroll_offset
        ELSE stored

\* all_content_lines.iter().skip(offset).take(max_expanded_height).collect().len()
SkipTake(total_content_lines, offset, max_expanded_height) ==
    Min(SatSub(total_content_lines, offset), max_expanded_height)

\* what render_accordion_item shows of the content of an expanded record:
\* "none" is the (no content to display) line, "hidden" the (content not
\* visible, check scroll position) line, "lines" the window of `visible` lines
\* starting at line `first`
RenderedContent(statement, stored, max_expanded_height) ==
    LET total_content_lines == TotalContentLines(statement)
        scroll_offset == ClampedScrollOffset(stored, total_content_lines, max_expanded_height)
        visible_lines == SkipTake(total_content_lines, scroll_offset, max_expanded_height)
        fallback == visible_lines = 0 /\ total_content_lines > 0
        fallback_offset == SatSub(total_content_lines, max_expanded_height)
        shown_lines == IF fallback
                          THEN SkipTake(total_content_lines, fallback_offset, max_expanded_height)
                          ELSE visible_lines
    IN  [total_content_lines |-> total_content_lines,
         scroll_offset |-> scroll_offset,
         fallback |-> fallback,
         first |-> IF fallback THEN fallback_offset ELSE scroll_offset,
         visible |-> shown_lines,
         shown |-> IF total_content_lines = 0 THEN "none"
                   ELSE IF shown_lines = 0 THEN "hidden"
                   ELSE "lines"]

----------------------------------------------------------------------------
(* The lines the listener may send *)

\* serde_json::from_str of a line that decodes: the record it holds.  arrival is
\* the position of the line in the stream of sent lines (history, not a field).
Record(statement, timestamp, endpoint, http_method, caller_class, caller_method, uid) ==
    [statement |-> statement, timestamp |-> timestamp, endpoint |-> endpoint,
     http_method |-> http_method, caller_class |-> caller_class,
     caller_method |-> caller_method, uid |-> uid, arrival |-> 0]

ShortSql == << SqlLine(1) >>

LineGetA == Record(ShortSql, S_1, Some(S_SLASH_A), Some(S_GET), None, None, None)
LineCall == Record(ShortSql, S_2, None, None, Some(S_C), Some(S_m), None)

\* the texts a connection may deliver: two records and one undecodable line
LinePool ==
    { [valid |-> TRUE, msg |-> LineGetA],
      [valid |-> TRUE, msg |-> LineCall],
      [valid |-> FALSE, msg |-> LineGetA] }

\* the heights of the list area a render may find
Heights == {2, 12}

\* the characters typed into the filter
FilterChars == {103}

----------------------------------------------------------------------------
(* The ingest step of the main loop *)

PushLineEvictNewest(buf, msg) ==
    LET with_uid ==
            IF IsNone(msg.uid)
                THEN [msg EXCEPT !.uid = Some(msg.timestamp \o S_DASH \o ToDecimal(Len(buf)))]
                ELSE msg
        pushed == Append(buf, with_uid)
    IN  IF Len(pushed) > MaxLogLines THEN SubSeq(pushed, 1, Len(pushed) - 1) ELSE pushed

\* uid assignment, log_lines.push(msg) and the eviction at the cap
PushLine(buf, msg) ==
    LET with_uid ==
            IF IsNone(msg.uid)
                THEN [msg EXCEPT !.uid = Some(msg.timestamp \o S_DASH \o ToDecimal(Len(buf)))]
                ELSE msg
        pushed == Append(buf, with_uid)
    IN  IF Len(pushed) > MaxLogLines THEN Tail(pushed) ELSE pushed

RECURSIVE IngestLinesStoringMalformed(_, _)
IngestLinesStoringMalformed(buf, lines) ==
    IF Len(lines) = 0 THEN [log |-> buf, ok |-> TRUE, rest |-> << >>]
    ELSE IF ~lines[1].valid
        THEN [log |-> PushLine(buf, [lines[1].msg EXCEPT !.arrival = lines[1].arrival]),
              ok |-> FALSE, rest |-> Tail(lines)]
    ELSE IngestLinesStoringMalformed(
             PushLine(buf, [lines[1].msg EXCEPT !.arrival = lines[1].arrival]), Tail(lines))

\* decoding and pushing lines one after the other; `?` stops at the first line
\* that does not decode
RECURSIVE IngestLines(_, _)
IngestLines(buf, lines) ==
    IF Len(lines) = 0 THEN [log |-> buf, ok |-> TRUE, rest |-> << >>]
    ELSE IF ~lines[1].valid THEN [log |-> buf, ok |-> FALSE, rest |-> Tail(lines)]
    ELSE IngestLines(PushLine(buf, [lines[1].msg EXCEPT !.arrival = lines[1].arrival]),
                     Tail(lines))

\* the flattened list the handlers recompute from the current state
FlatItemsOf(lines, order) ==
    CreateFlatNavigationStructure(FromMessages(lines, pinned_groups, order),
                                  expanded_groups, filter_text)

\* every list from_messages + create_flat_navigation_structure may return for a
\* buffer, pin set, expanded-group set and filter text
NavigationIndexes(lines, pinned, expanded, filter) ==
    {CreateFlatNavigationStructure(FromMessages(lines, pinned, o), expanded, filter) :
        o \in BucketOrders(lines)}

CurrentFlatItems ==
    NavigationIndexes(log_lines, pinned_groups, expanded_groups, filter_text)

IsMessageAt(flat, actual_index) ==
    actual_index < Len(flat) /\ flat[actual_index + 1].kind = "Message"

IsHeaderAt(flat, actual_index) ==
    actual_index < Len(flat) /\ flat[actual_index + 1].kind = "GroupHeader"

\* lines 197-214: the uid of the selected row, if it is a message
CaptureSelectedUid(flat) ==
    IF selected > 0 /\ IsMessageAt(flat, selected - 1)
        THEN flat[selected].msg.uid
        ELSE selected_uid

FoundIndexNever(flat, uid) == None

\* lines 257-266: the first row that is a message with the uid
FoundIndex(flat, uid) ==
    LET hits == {i \in 0..(Len(flat) - 1) :
                    flat[i + 1].kind = "Message" /\ flat[i + 1].msg.uid = Some(uid)}
    IN  IF hits = {} THEN None ELSE Some(CHOOSE i \in hits : \A j \in hits : i <= j)

AfterDrainIgnoringScrollMode == IngestLines(log_lines, chan)

\* lines 218-233: while let Ok(line) = rx.try_recv()
AfterDrain ==
    IF scroll_mode THEN [log |-> log_lines, ok |-> TRUE, rest |-> << >>]
    ELSE IngestLines(log_lines, chan)

AfterFlushNever == AfterDrain

AfterFlushOntoOldLog ==
    IF ~scroll_mode /\ Len(log_buffer) > 0 /\ AfterDrain.ok
        THEN IngestLines(log_lines, log_buffer)
        ELSE AfterDrain

\* lines 235-247: the flush of the holding buffer, run after the drain
AfterFlush ==
    IF ~scroll_mode /\ Len(log_buffer) > 0 /\ AfterDrain.ok
        THEN IngestLines(AfterDrain.log, log_buffer)
        ELSE AfterDrain

NewLogsReceived == ~scroll_mode /\ (Len(chan) > 0 \/ Len(log_buffer) > 0)

\* line 275 evaluates visible_height - 1 on usize
RestoreUnderflows(found_index, visible_height) ==
    found_index >= main_scroll_offset /\ visible_height = 0

RestoredScrollOffsetOffByOne(found_index, visible_height, flat_len) ==
    LET moved ==
            IF found_index < main_scroll_offset THEN found_index
            ELSE IF found_index >= main_scroll_offset + visible_height
                THEN SatSub(found_index, visible_height)
            ELSE main_scroll_offset
        max_scroll == SatSub(flat_len, visible_height)
    IN  IF moved > max_scroll THEN max_scroll ELSE moved

\* lines 271-281; when visible_height - 1 wraps, saturating_sub of it gives 0
RestoredScrollOffset(found_index, visible_height, flat_len) ==
    LET moved ==
            IF found_index < main_scroll_offset THEN found_index
            ELSE IF found_index >= main_scroll_offset + visible_height
                THEN (IF visible_height = 0 THEN 0
                      ELSE SatSub(found_index, visible_height - 1))
            ELSE main_scroll_offset
        max_scroll == SatSub(flat_len, visible_height)
    IN  IF moved > max_scroll THEN max_scroll ELSE moved

chanVars == << chan, sent >>
outVars == << grouped_messages, flat_items, returned >>
modeVars == << scroll_mode, filter_focused, help_screen_visible >>
scrollVars == << scroll_offsets, scroll_cursors >>
expandVars == << expanded_uids, expanded_groups >>

\* the listener task: tx.send(line), for the first `limit` lines of a behaviour
SendUpTo(limit) ==
    /\ pc \in {"top", "poll"}
    /\ sent < limit
    /\ \E l \in LinePool :
          chan' = Append(chan, [valid |-> l.valid, msg |-> l.msg, arrival |-> sent + 1])
    /\ sent' = sent + 1
    /\ UNCHANGED << log_lines, log_buffer, expandVars, pinned_groups, selected,
                    main_scroll_offset, modeVars, scrollVars,
                    copy_flash_state, filter_text, selected_uid, last_list_height,
                    pc, keys, outVars >>

Send == SendUpTo(MaxSent)

\* lines 287-445: the flash timeout and terminal.draw
Render ==
    /\ copy_flash_state' \in {copy_flash_state, None}
    /\ IF help_screen_visible
          THEN UNCHANGED last_list_height
          ELSE last_list_height' \in Heights

\* one pass of the loop body up to the draw, no line failing to decode
Iterate ==
    /\ pc = "top"
    /\ AfterFlush.ok
    /\ \E before \in CurrentFlatItems :
          LET uid == CaptureSelectedUid(before)
          IN  /\ selected_uid' = uid
              /\ IF NewLogsReceived /\ IsSome(uid)
                    THEN \E order \in BucketOrders(AfterFlush.log) :
                           LET after == FlatItemsOf(AfterFlush.log, order)
                               found == FoundIndex(after, Unwrap(uid))
                               visible_height == SatSub(last_list_height, 2)
                           IN  IF IsSome(found)
                                 THEN /\ selected' = Unwrap(found) + 1
                                      /\ main_scroll_offset' =
                                            RestoredScrollOffset(Unwrap(found), visible_height,
                                                                 Len(after))
                                 ELSE UNCHANGED << selected, main_scroll_offset >>
                    ELSE UNCHANGED << selected, main_scroll_offset >>
    /\ log_lines' = AfterFlush.log
    /\ log_buffer' = IF scroll_mode THEN log_buffer \o chan ELSE << >>
    /\ chan' = << >>
    /\ Render
    /\ pc' = "poll"
    /\ UNCHANGED << sent, expandVars, pinned_groups, modeVars, scrollVars,
                    filter_text, keys, outVars >>

\* the same pass in a debug build when line 275 is reached with visible_height = 0:
\* the subtraction panics
IterateOverflowPanic ==
    /\ pc = "top"
    /\ AfterFlush.ok
    /\ NewLogsReceived
    /\ \E before \in CurrentFlatItems :
          LET uid == CaptureSelectedUid(before)
          IN  /\ selected_uid' = uid
              /\ IsSome(uid)
              /\ \E order \in BucketOrders(AfterFlush.log) :
                    LET after == FlatItemsOf(AfterFlush.log, order)
                        found == FoundIndex(after, Unwrap(uid))
                    IN  /\ IsSome(found)
                        /\ RestoreUnderflows(Unwrap(found), SatSub(last_list_height, 2))
                        /\ selected' = Unwrap(found) + 1
    /\ log_lines' = AfterFlush.log
    /\ log_buffer' = << >>
    /\ chan' = << >>
    /\ pc' = "panic"
    /\ UNCHANGED << sent, expandVars, pinned_groups, main_scroll_offset, modeVars,
                    scrollVars, copy_flash_state, filter_text,
                    last_list_height, keys, outVars >>

\* the same pass when serde_json::from_str fails: `?` returns from run_tui
IterateDecodeError ==
    /\ pc = "top"
    /\ ~AfterFlush.ok
    /\ \E before \in CurrentFlatItems : selected_uid' = CaptureSelectedUid(before)
    /\ log_lines' = AfterFlush.log
    /\ IF AfterDrain.ok
          THEN chan' = << >> /\ log_buffer' = << >>
          ELSE chan' = AfterDrain.rest /\ UNCHANGED log_buffer
    /\ pc' = "error"
    /\ UNCHANGED << sent, expandVars, pinned_groups, selected, main_scroll_offset,
                    modeVars, scrollVars, copy_flash_state, filter_text,
                    last_list_height, keys, outVars >>

----------------------------------------------------------------------------
(* The key handlers: the state change of each match arm of lines 454-999 *)

dataVars == << chan, sent, log_lines, log_buffer >>
selVars == << selected, main_scroll_offset, selected_uid >>
miscVars == << last_list_height, outVars >>

\* an arm that changes nothing (`_ => {}`), a timeout of event::poll, or an
\* event that is not a key press
OnNothing ==
    UNCHANGED << dataVars, expandVars, pinned_groups, selVars, modeVars, scrollVars,
                 copy_flash_state, filter_text, miscVars >>

\* help screen, Esc
OnHelpEsc ==
    /\ help_screen_visible' = FALSE
    /\ UNCHANGED << dataVars, expandVars, pinned_groups, selVars, scroll_mode,
                    filter_focused, scrollVars, copy_flash_state, filter_text, miscVars >>

OnScrollExitForgetting ==
    /\ scroll_mode' = FALSE
    /\ scroll_offsets' = EmptyMap
    /\ scroll_cursors' = EmptyMap
    /\ UNCHANGED << dataVars, expandVars, pinned_groups, selVars, filter_focused,
                    help_screen_visible, copy_flash_state, filter_text, miscVars >>

\* scroll mode, h
OnScrollExit ==
    /\ scroll_mode' = FALSE
    /\ UNCHANGED << dataVars, expandVars, pinned_groups, selVars, filter_focused,
                    help_screen_visible, scrollVars, copy_flash_state, filter_text,
                    miscVars >>

\* scroll mode, Esc: leave and collapse the selected record
OnScrollEsc ==
    /\ \E flat \in CurrentFlatItems :
          expanded_uids' =
              IF selected > 0 /\ IsMessageAt(flat, selected - 1)
                               /\ IsSome(flat[selected].msg.uid)
                  THEN expanded_uids \ {Unwrap(flat[selected].msg.uid)}
                  ELSE expanded_uids
    /\ scroll_mode' = FALSE
    /\ UNCHANGED << dataVars, expanded_groups, pinned_groups, selVars, filter_focused,
                    help_screen_visible, scrollVars, copy_flash_state, filter_text,
                    miscVars >>

CursorDownNoAutoScroll(cursor, offset, total_lines, height) ==
    IF cursor < SatSub(total_lines, 1)
        THEN [cursor |-> cursor + 1, offset |-> offset, moved |-> TRUE, scrolled |-> FALSE]
        ELSE [cursor |-> cursor, offset |-> offset, moved |-> FALSE, scrolled |-> FALSE]

\* lines 571-588
CursorDown(cursor, offset, total_lines, height) ==
    IF cursor < SatSub(total_lines, 1)
        THEN [cursor |-> cursor + 1,
              offset |-> IF cursor + 1 >= offset + height THEN offset + 1 ELSE offset,
              moved |-> TRUE,
              scrolled |-> cursor + 1 >= offset + height]
        ELSE [cursor |-> cursor, offset |-> offset, moved |-> FALSE, scrolled |-> FALSE]

\* lines 598-613
CursorUp(cursor, offset) ==
    IF cursor > 0
        THEN [cursor |-> cursor - 1,
              offset |-> IF cursor - 1 < offset THEN offset - 1 ELSE offset,
              moved |-> TRUE,
              scrolled |-> cursor - 1 < offset]
        ELSE [cursor |-> cursor, offset |-> offset, moved |-> FALSE, scrolled |-> FALSE]

PageDownUnclamped(cursor, offset, total_lines, height) ==
    LET page_size == height \div 2
        new_cursor == Min(cursor + page_size, SatSub(total_lines, 1))
    IN  [cursor |-> new_cursor,
         offset |-> IF new_cursor >= offset + height THEN offset + page_size ELSE offset,
         moved |-> TRUE,
         scrolled |-> new_cursor >= offset + height]

\* lines 712-726
PageDown(cursor, offset, total_lines, height) ==
    LET page_size == height \div 2
        new_cursor == Min(cursor + page_size, SatSub(total_lines, 1))
    IN  [cursor |-> new_cursor,
         offset |-> IF new_cursor >= offset + height
                        THEN Min(offset + page_size, SatSub(total_lines, height))
                        ELSE offset,
         moved |-> TRUE,
         scrolled |-> new_cursor >= offset + height]

\* lines 739-758
PageUp(cursor, offset, height) ==
    LET page_size == height \div 2
        new_cursor == SatSub(cursor, page_size)
    IN  [cursor |-> new_cursor,
         offset |-> IF new_cursor < offset THEN SatSub(offset, page_size) ELSE offset,
         moved |-> TRUE,
         scrolled |-> new_cursor < offset]

\* scroll_cursors.insert / scroll_offsets.insert of a handler's result
StoreScroll(actual_index, r) ==
    /\ scroll_cursors' = IF r.moved THEN MapPut(scroll_cursors, actual_index, r.cursor)
                                    ELSE scroll_cursors
    /\ scroll_offsets' = IF r.scrolled THEN MapPut(scroll_offsets, actual_index, r.offset)
                                       ELSE scroll_offsets

scrollFrame == << dataVars, expandVars, pinned_groups, selVars, modeVars,
                  copy_flash_state, filter_text, miscVars >>

\* scroll mode, j / Down
OnScrollDown ==
    /\ \E flat \in CurrentFlatItems :
          IF selected > 0 /\ IsMessageAt(flat, selected - 1)
            THEN StoreScroll(selected - 1,
                    CursorDown(MapGet(scroll_cursors, selected - 1),
                               MapGet(scroll_offsets, selected - 1),
                               TotalLines(flat[selected].msg.statement),
                               DynamicMaxExpandedHeight(last_list_height)))
            ELSE UNCHANGED scrollVars
    /\ UNCHANGED scrollFrame

\* scroll mode, k / Up
OnScrollUp ==
    /\ IF selected > 0
          THEN StoreScroll(selected - 1,
                  CursorUp(MapGet(scroll_cursors, selected - 1),
                           MapGet(scroll_offsets, selected - 1)))
          ELSE UNCHANGED scrollVars
    /\ UNCHANGED scrollFrame

\* scroll mode, Ctrl+d
OnScrollPageDown ==
    /\ \E flat \in CurrentFlatItems :
          IF selected > 0 /\ IsMessageAt(flat, selected - 1)
            THEN StoreScroll(selected - 1,
                    PageDown(MapGet(scroll_cursors, selected - 1),
                             MapGet(scroll_offsets, selected - 1),
                             PageTotalLines(flat[selected].msg.statement),
                             DynamicMaxExpandedHeight(last_list_height)))
            ELSE UNCHANGED scrollVars
    /\ UNCHANGED scrollFrame

\* scroll mode, Ctrl+u
OnScrollPageUp ==
    /\ IF selected > 0
          THEN StoreScroll(selected - 1,
                  PageUp(MapGet(scroll_cursors, selected - 1),
                         MapGet(scroll_offsets, selected - 1),
                         DynamicMaxExpandedHeight(last_list_height)))
          ELSE UNCHANGED scrollVars
    /\ UNCHANGED scrollFrame

\* what the clipboard does at a copy: there is none (Clipboard::new() failed),
\* set_text fails, or set_text succeeds
ClipboardOutcomes == {"none", "err", "ok"}

FlashAfterCopyAlways(actual_index, outcome) == Some(actual_index)

\* lines 801-809: the flash is set only when there is a clipboard and set_text
\* returned Ok
FlashAfterCopy(actual_index, outcome) ==
    IF outcome = "ok" THEN Some(actual_index) ELSE copy_flash_state

\* scroll mode, y
OnScrollCopy ==
    /\ \E flat \in CurrentFlatItems, outcome \in ClipboardOutcomes :
          copy_flash_state' =
              IF selected > 0 /\ IsMessageAt(flat, selected - 1)
                  THEN FlashAfterCopy(selected - 1, outcome)
                  ELSE copy_flash_state
    /\ UNCHANGED << dataVars, expandVars, pinned_groups, selVars, modeVars, scrollVars,
                    filter_text, miscVars >>

filterFrame == << dataVars, expandVars, pinned_groups, selVars, scroll_mode,
                  help_screen_visible, scrollVars, copy_flash_state, miscVars >>

\* filter input, Esc or Enter
OnFilterLeave ==
    /\ filter_focused' = FALSE
    /\ UNCHANGED << filter_text, filterFrame >>

\* filter input, Char(c)
OnFilterChar(c) ==
    /\ filter_text' = Append(filter_text, c)
    /\ UNCHANGED << filter_focused, filterFrame >>

\* filter input, Backspace: String::pop
OnFilterBackspace ==
    /\ filter_text' = IF Len(filter_text) = 0 THEN filter_text
                      ELSE SubSeq(filter_text, 1, Len(filter_text) - 1)
    /\ UNCHANGED << filter_focused, filterFrame >>

\* normal mode, f
OnFocusFilter ==
    /\ filter_focused' = TRUE
    /\ UNCHANGED << filter_text, filterFrame >>

\* normal mode, h
OnShowHelp ==
    /\ help_screen_visible' = TRUE
    /\ UNCHANGED << dataVars, expandVars, pinned_groups, selVars, scroll_mode,
                    filter_focused, scrollVars, copy_flash_state, filter_text, miscVars >>

selectFrame == << dataVars, expandVars, pinned_groups, main_scroll_offset, selected_uid,
                  modeVars, scrollVars, copy_flash_state, filter_text, miscVars >>

\* normal mode, Up / k
OnUp ==
    /\ selected' = IF selected > 1 THEN selected - 1 ELSE selected
    /\ UNCHANGED selectFrame

\* normal mode, Down / j
OnDown ==
    /\ \E order \in BucketOrders(log_lines) :
          LET total_items ==
                  CountTotalRenderedItems(FromMessages(log_lines, pinned_groups, order),
                                          expanded_groups, filter_text)
          IN  selected' = IF selected < total_items THEN selected + 1 ELSE selected
    /\ UNCHANGED selectFrame

\* normal mode, Ctrl+d
OnPageDown ==
    /\ LET page_size == SatSub(last_list_height, 2) \div 2
           max_index == Len(log_lines)
           new_selected == Min(selected + page_size, max_index)
       IN  selected' = IF new_selected > 0 /\ new_selected <= max_index
                           THEN new_selected ELSE selected
    /\ UNCHANGED selectFrame

\* normal mode, Ctrl+u
OnPageUp ==
    /\ LET page_size == SatSub(last_list_height, 2) \div 2
           new_selected == SatSub(selected, page_size)
       IN  selected' = IF new_selected > 0 THEN new_selected ELSE 1
    /\ UNCHANGED selectFrame

ToggleInsertOnly(set, x) == set \cup {x}

Toggle(set, x) == IF x \in set THEN set \ {x} ELSE set \cup {x}

\* normal mode, Enter
OnEnter ==
    /\ \E flat \in CurrentFlatItems :
          IF selected > 0 /\ IsHeaderAt(flat, selected - 1)
            THEN /\ expanded_groups' = Toggle(expanded_groups, flat[selected].group)
                 /\ UNCHANGED expanded_uids
          ELSE IF selected > 0 /\ IsMessageAt(flat, selected - 1)
                               /\ IsSome(flat[selected].msg.uid)
            THEN /\ expanded_uids' = Toggle(expanded_uids, Unwrap(flat[selected].msg.uid))
                 /\ UNCHANGED expanded_groups
          ELSE UNCHANGED expandVars
    /\ UNCHANGED << dataVars, pinned_groups, selVars, modeVars, scrollVars,
                    copy_flash_state, filter_text, miscVars >>

OnEnterScrollModeAnyMember ==
    /\ \E flat \in CurrentFlatItems :
          IF /\ selected > 0
             /\ IsMessageAt(flat, selected - 1)
            THEN /\ scroll_mode' = TRUE
                 /\ scroll_offsets' = MapPut(scroll_offsets, selected - 1, 0)
                 /\ scroll_cursors' = MapPut(scroll_cursors, selected - 1, 0)
            ELSE UNCHANGED << scroll_mode, scrollVars >>
    /\ UNCHANGED << dataVars, expandVars, pinned_groups, selVars, filter_focused,
                    help_screen_visible, copy_flash_state, filter_text, miscVars >>

\* normal mode, l
OnEnterScrollMode ==
    /\ \E flat \in CurrentFlatItems :
          IF /\ selected > 0
             /\ IsMessageAt(flat, selected - 1)
             /\ IsSome(flat[selected].msg.uid)
             /\ Unwrap(flat[selected].msg.uid) \in expanded_uids
            THEN /\ scroll_mode' = TRUE
                 /\ scroll_offsets' = MapPut(scroll_offsets, selected - 1, 0)
                 /\ scroll_cursors' = MapPut(scroll_cursors, selected - 1, 0)
            ELSE UNCHANGED << scroll_mode, scrollVars >>
    /\ UNCHANGED << dataVars, expandVars, pinned_groups, selVars, filter_focused,
                    help_screen_visible, copy_flash_state, filter_text, miscVars >>

HeaderIndexNever(flat, group) == None

\* position of the first GroupHeader row of `group`, lines 973-980
HeaderIndex(flat, group) ==
    LET hits == {i \in 0..(Len(flat) - 1) :
                    flat[i + 1].kind = "GroupHeader" /\ flat[i + 1].group = group}
    IN  IF hits = {} THEN None ELSE Some(CHOOSE i \in hits : \A j \in hits : i <= j)

\* normal mode, t
OnTogglePin ==
    /\ \E flat \in CurrentFlatItems :
          IF selected > 0 /\ IsHeaderAt(flat, selected - 1)
            THEN LET target_group == flat[selected].group
                     pins == Toggle(pinned_groups, target_group)
                 IN  /\ pinned_groups' = pins
                     /\ \E order \in BucketOrders(log_lines) :
                           LET updated_flat_items ==
                                   CreateFlatNavigationStructure(
                                       FromMessages(log_lines, pins, order),
                                       expanded_groups, filter_text)
                               at == HeaderIndex(updated_flat_items, target_group)
                           IN  selected' = IF IsSome(at) THEN Unwrap(at) + 1 ELSE selected
            ELSE UNCHANGED << pinned_groups, selected >>
    /\ UNCHANGED << dataVars, expandVars, main_scroll_offset, selected_uid, modeVars,
                    scrollVars, copy_flash_state, filter_text, miscVars >>

OnClearKeepingExpansion ==
    /\ log_lines' = << >>
    /\ scroll_offsets' = EmptyMap
    /\ scroll_cursors' = EmptyMap
    /\ selected_uid' = None
    /\ selected' = 1
    /\ main_scroll_offset' = 0
    /\ UNCHANGED << chan, sent, log_buffer, expandVars, pinned_groups, modeVars,
                    copy_flash_state, filter_text, miscVars >>

\* normal mode, c
OnClear ==
    /\ log_lines' = << >>
    /\ expanded_uids' = {}
    /\ expanded_groups' = {}
    /\ scroll_offsets' = EmptyMap
    /\ scroll_cursors' = EmptyMap
    /\ selected_uid' = None
    /\ selected' = 1
    /\ main_scroll_offset' = 0
    /\ UNCHANGED << chan, sent, log_buffer, pinned_groups, modeVars, copy_flash_state,
                    filter_text, miscVars >>

----------------------------------------------------------------------------
(* run_tui as a state machine *)

\* lines 159-195
Init ==
    /\ chan = << >>
    /\ sent = 0
    /\ log_lines = << >>
    /\ log_buffer = << >>
    /\ expanded_uids = {}
    /\ expanded_groups = {}
    /\ pinned_groups = {}
    /\ selected = 1
    /\ main_scroll_offset = 0
    /\ scroll_mode = FALSE
    /\ scroll_offsets = EmptyMap
    /\ scroll_cursors = EmptyMap
    /\ copy_flash_state = None
    /\ filter_text = << >>
    /\ filter_focused = FALSE
    /\ help_screen_visible = FALSE
    /\ selected_uid = None
    /\ last_list_height = 10
    /\ pc = "top"
    /\ keys = 0
    /\ grouped_messages = << >>
    /\ flat_items = << >>
    /\ returned = << >>

InHelp == help_screen_visible
InScroll == ~help_screen_visible /\ scroll_mode
InFilter == ~help_screen_visible /\ ~scroll_mode /\ filter_focused
InNormalWhileScrolling == ~help_screen_visible /\ ~filter_focused
InNormal == ~help_screen_visible /\ ~scroll_mode /\ ~filter_focused

Handled == pc = "poll" /\ pc' = "top" /\ keys < MaxKeys /\ keys' = keys + 1

\* no key press within the poll timeout, or a key no arm of the mode matches
KeyNone == pc = "poll" /\ pc' = "top" /\ OnNothing /\ UNCHANGED keys
\* q breaks out of the loop in every mode
KeyQuit == pc = "poll" /\ pc' = "quit" /\ OnNothing /\ UNCHANGED keys

KeyHelpEsc == Handled /\ InHelp /\ OnHelpEsc
KeyScrollExit == Handled /\ InScroll /\ OnScrollExit
KeyScrollEsc == Handled /\ InScroll /\ OnScrollEsc
KeyScrollDown == Handled /\ InScroll /\ OnScrollDown
KeyScrollUp == Handled /\ InScroll /\ OnScrollUp
KeyScrollPageDown == Handled /\ InScroll /\ OnScrollPageDown
KeyScrollPageUp == Handled /\ InScroll /\ OnScrollPageUp
KeyScrollCopy == Handled /\ InScroll /\ OnScrollCopy
KeyFilterLeave == Handled /\ InFilter /\ OnFilterLeave
KeyFilterChar ==
    /\ Handled /\ InFilter
    /\ Len(filter_text) < MaxFilterLen
    /\ \E c \in FilterChars : OnFilterChar(c)
KeyFilterBackspace == Handled /\ InFilter /\ OnFilterBackspace
KeyFocusFilter == Handled /\ InNormal /\ OnFocusFilter
KeyUp == Handled /\ InNormal /\ OnUp
KeyDown == Handled /\ InNormal /\ OnDown
KeyPageDown == Handled /\ InNormal /\ OnPageDown
KeyPageUp == Handled /\ InNormal /\ OnPageUp
KeyEnter == Handled /\ InNormal /\ OnEnter
KeyEnterScrollMode == Handled /\ InNormal /\ OnEnterScrollMode
KeyShowHelp == Handled /\ InNormal /\ OnShowHelp
KeyTogglePin == Handled /\ InNormal /\ OnTogglePin
KeyClear == Handled /\ InNormal /\ OnClear

Next ==
    \/ Send
    \/ Iterate
    \/ IterateOverflowPanic
    \/ IterateDecodeError
    \/ KeyNone
    \/ KeyQuit
    \/ KeyHelpEsc
    \/ KeyScrollExit
    \/ KeyScrollEsc
    \/ KeyScrollDown
    \/ KeyScrollUp
    \/ KeyScrollPageDown
    \/ KeyScrollPageUp
    \/ KeyScrollCopy
    \/ KeyFilterLeave
    \/ KeyFilterChar
    \/ KeyFilterBackspace
    \/ KeyFocusFilter
    \/ KeyUp
    \/ KeyDown
    \/ KeyPageDown
    \/ KeyPageUp
    \/ KeyEnter
    \/ KeyEnterScrollMode
    \/ KeyShowHelp
    \/ KeyTogglePin
    \/ KeyClear

Spec == Init /\ [][Next]_vars

----------------------------------------------------------------------------
(* Scroll mode alone: one expanded record being scrolled, nothing arriving, *)
(* the terminal keeping its size                                            *)

\* statements of 4, 12, 15 and 25 content lines, and a batch of two of 16
ScrollStatements ==
    { << SqlLine(3) >>, << SqlLine(11) >>, << SqlLine(14) >>, << SqlLine(24) >>,
      << BatchLine, SqlLine(6), BatchLine, SqlLine(7) >> }

\* list heights giving viewports of 10, 11 and 13 lines
ScrollHeights == {10, 20, 22}

\* the state after: one line received, its group expanded (Enter), the record
\* selected (j) and expanded (Enter), scroll mode entered (l)
ScrollInit ==
    /\ chan = << >>
    /\ sent = 1
    /\ \E st \in ScrollStatements :
          log_lines = PushLine(<< >>, [Record(st, S_1, Some(S_SLASH_A), Some(S_GET),
                                             None, None, None) EXCEPT !.arrival = 1])
    /\ log_buffer = << >>
    /\ expanded_uids = {S_1 \o S_DASH \o ToDecimal(0)}
    /\ expanded_groups = {[endpoint |-> S_SLASH_A, http_method |-> S_GET]}
    /\ pinned_groups = {}
    /\ selected = 2
    /\ main_scroll_offset = 0
    /\ scroll_mode = TRUE
    /\ scroll_offsets = MapPut(EmptyMap, 1, 0)
    /\ scroll_cursors = MapPut(EmptyMap, 1, 0)
    /\ copy_flash_state = None
    /\ filter_text = << >>
    /\ filter_focused = FALSE
    /\ help_screen_visible = FALSE
    /\ selected_uid = Some(S_1 \o S_DASH \o ToDecimal(0))
    /\ last_list_height \in ScrollHeights
    /\ pc = "poll"
    /\ keys = 4
    /\ grouped_messages = << >>
    /\ flat_items = << >>
    /\ returned = << >>

ScrollKeyDown == InScroll /\ OnScrollDown /\ UNCHANGED << pc, keys >>
ScrollKeyUp == InScroll /\ OnScrollUp /\ UNCHANGED << pc, keys >>
ScrollKeyPageDown == InScroll /\ OnScrollPageDown /\ UNCHANGED << pc, keys >>
ScrollKeyPageUp == InScroll /\ OnScrollPageUp /\ UNCHANGED << pc, keys >>

ScrollNext == ScrollKeyDown \/ ScrollKeyUp \/ ScrollKeyPageDown \/ ScrollKeyPageUp

SpecScroll == ScrollInit /\ [][ScrollNext]_vars

----------------------------------------------------------------------------
(* Scroll mode with the terminal resized between key presses *)

\* the iteration between two key presses in scroll mode, nothing arriving:
\* terminal.draw finds the list area at another height and stores it
ScrollRedraw ==
    /\ InScroll
    /\ Len(chan) = 0
    /\ last_list_height' \in ScrollHeights \ {last_list_height}
    /\ UNCHANGED << dataVars, expandVars, pinned_groups, selVars, modeVars, scrollVars,
                    copy_flash_state, filter_text, pc, keys, outVars >>

ResizeNext == ScrollNext \/ ScrollRedraw

SpecResize == ScrollInit /\ [][ResizeNext]_vars

----------------------------------------------------------------------------
(* from_messages and create_flat_navigation_structure alone, on drawn inputs *)

PoolGetA1 == Record(ShortSql, S_1, Some(S_SLASH_A), Some(S_GET), None, None, None)
PoolGetA3 == Record(ShortSql, S_3, Some(S_SLASH_A), Some(S_GET), None, None, None)
PoolPost == Record(ShortSql, S_2, None, Some(S_POST), None, None, None)
PoolCall == Record(ShortSql, S_2, Some(S_SLASH_A), None, Some(S_C), Some(S_m), None)
PoolBare == Record(ShortSql, S_2, None, None, None, None, None)

GroupPool == {PoolGetA1, PoolGetA3, PoolPost, PoolCall, PoolBare}
NavPool == {PoolGetA1, PoolGetA3, PoolPost, PoolCall}

\* "", "post", "n/a", "G"
NavFilters == { << >>, << 112, 111, 115, 116 >>, << 110, 47, 97 >>, << 71 >> }

RECURSIVE SeqsUpTo(_, _)
SeqsUpTo(S, n) ==
    IF n = 0 THEN {<< >>}
    ELSE SeqsUpTo(S, n - 1) \cup
         {Append(q, x) : q \in {r \in SeqsUpTo(S, n - 1) : Len(r) = n - 1}, x \in S}

\* a buffer as the ingest step leaves it: record i received i-th, uid assigned.
\* The two functions take any slice; MaxMsgs records are far below the cap of
\* 1000 at which the program starts to evict.
AsIngested(templates) ==
    [i \in 1..Len(templates) |->
        [templates[i] EXCEPT !.arrival = i,
                             !.uid = Some(templates[i].timestamp \o S_DASH \o ToDecimal(i - 1))]]

PoolKeys(pool) == {RequestGroupFromMessage(m) : m \in pool}

\* the state in which a function is called alone on one of the buffers
CallInitOn(buffers, pinsets, expsets, filters) ==
    /\ chan = << >>
    /\ sent = 0
    /\ log_lines \in buffers
    /\ log_buffer = << >>
    /\ expanded_uids = {}
    /\ expanded_groups \in expsets
    /\ pinned_groups \in pinsets
    /\ selected = 1
    /\ main_scroll_offset = 0
    /\ scroll_mode = FALSE
    /\ scroll_offsets = EmptyMap
    /\ scroll_cursors = EmptyMap
    /\ copy_flash_state = None
    /\ filter_text \in filters
    /\ filter_focused = FALSE
    /\ help_screen_visible = FALSE
    /\ selected_uid = None
    /\ last_list_height = 10
    /\ pc = "call"
    /\ keys = 0
    /\ grouped_messages = << >>
    /\ flat_items = << >>
    /\ returned = << >>

CallInit(pool, pinsets, expsets, filters) ==
    CallInitOn({AsIngested(q) : q \in SeqsUpTo(pool, MaxMsgs)}, pinsets, expsets, filters)

callFrame == << dataVars, expandVars, pinned_groups, selVars, modeVars, scrollVars,
                copy_flash_state, filter_text, last_list_height, keys >>

GroupInit == CallInit(GroupPool, SUBSET PoolKeys(GroupPool), {{}}, {<< >>})

\* one call of GroupedLogMessages::from_messages
GroupCall ==
    /\ pc = "call"
    /\ \E order \in BucketOrders(log_lines) :
          grouped_messages' = FromMessages(log_lines, pinned_groups, order)
    /\ pc' = "return"
    /\ UNCHANGED << callFrame, flat_items, returned >>

SpecGroup == GroupInit /\ [][GroupCall]_vars

NavInit ==
    CallInit(NavPool, {p \in SUBSET PoolKeys(NavPool) : Cardinality(p) <= 1},
             SUBSET PoolKeys(NavPool), NavFilters)

\* from_messages followed by create_flat_navigation_structure, as at every use
NavCall ==
    /\ pc = "call"
    /\ \E order \in BucketOrders(log_lines) :
          /\ grouped_messages' = FromMessages(log_lines, pinned_groups, order)
          /\ flat_items' = CreateFlatNavigationStructure(
                               FromMessages(log_lines, pinned_groups, order),
                               expanded_groups, filter_text)
    /\ pc' = "return"
    /\ UNCHANGED << callFrame, returned >>

SpecNav == NavInit /\ [][NavCall]_vars

----------------------------------------------------------------------------
(* RequestGroup::from_message alone, on two records *)

\* records with every combination of an endpoint that is absent, "/a" or the
\* text "N/A", an HTTP method that is absent, "GET" or the text "CALL", and a
\* caller class and a caller method that are absent or present
KeyPool ==
    {Record(ShortSql, S_1, endpoint, http_method, caller_class, caller_method, None) :
        endpoint \in {None, Some(S_SLASH_A), Some(S_NA)},
        http_method \in {None, Some(S_GET), Some(S_CALL)},
        caller_class \in {None, Some(S_C)},
        caller_method \in {None, Some(S_m)}}

KeyInit ==
    CallInitOn({AsIngested(<< a, b >>) : a \in KeyPool, b \in KeyPool}, {{}}, {{}}, {<< >>})

\* RequestGroup::from_message called on each record of the buffer, as the loop
\* of from_messages does
KeyCall ==
    /\ pc = "call"
    /\ returned' = [i \in 1..Len(log_lines) |-> RequestGroupFromMessage(log_lines[i])]
    /\ pc' = "return"
    /\ UNCHANGED << callFrame, grouped_messages, flat_items >>

SpecKey == KeyInit /\ [][KeyCall]_vars

----------------------------------------------------------------------------
(* The ingest step alone: lines arrive and are received, no key is pressed *)

\* lines the listener sends in one behaviour of the ingest step checked alone:
\* two more than the cap of log_lines
MaxIngestSent == 4

IngestSend == SendUpTo(MaxIngestSent)

IngestNext == IngestSend \/ Iterate \/ IterateDecodeError \/ KeyNone

SpecIngest == Init /\ [][IngestNext]_vars

----------------------------------------------------------------------------
(* The restore of the selection alone: one iteration that receives a line, *)
(* with a record selected, at any offset of the main list and small heights *)

\* the largest main_scroll_offset an earlier iteration left behind
MaxMainOffset == 4

\* list heights giving 0, 1, 2 and 10 visible rows
RestoreHeights == {2, 3, 4, 12}

\* two records received, their groups expanded, any row selected; the main
\* list offset is what an earlier restore left, when the list was longer or
\* the terminal had another height; one more line is in the channel
RestoreInit ==
    /\ \E l \in {LineGetA, LineCall} :
          chan = << [valid |-> TRUE, msg |-> l, arrival |-> 3] >>
    /\ sent = 3
    /\ log_lines \in {AsIngested(<< a, b >>) : a \in {LineGetA, LineCall},
                                               b \in {LineGetA, LineCall}}
    /\ log_buffer = << >>
    /\ expanded_uids = {}
    /\ expanded_groups = PoolKeys({LineGetA, LineCall})
    /\ pinned_groups = {}
    /\ selected \in 1..4
    /\ main_scroll_offset \in 0..MaxMainOffset
    /\ scroll_mode = FALSE
    /\ scroll_offsets = EmptyMap
    /\ scroll_cursors = EmptyMap
    /\ copy_flash_state = None
    /\ filter_text = << >>
    /\ filter_focused = FALSE
    /\ help_screen_visible = FALSE
    /\ selected_uid = None
    /\ last_list_height \in RestoreHeights
    /\ pc = "top"
    /\ keys = 0
    /\ grouped_messages = << >>
    /\ flat_items = << >>
    /\ returned = << >>

RestoreNext == Iterate \/ IterateOverflowPanic

SpecRestore == RestoreInit /\ [][RestoreNext]_vars

----------------------------------------------------------------------------
(* render_accordion_item alone, on one expanded record *)

\* the largest scroll offset found stored for the position of the record
MaxStoredOffset == 16

\* the statements of scroll mode, a batch marker with nothing after it (no
\* content lines at all) and a blank statement
RenderStatements == ScrollStatements \cup { << BatchLine >>, << BlankLine >> }

\* one record received, its group and the record expanded, the record selected.
\* The scroll state is keyed by position, so the offset and cursor stored for
\* the position may come from any record that was there before, at any height.
ItemInit(statements, offsets, cursors, heights) ==
    /\ chan = << >>
    /\ sent = 1
    /\ \E st \in statements :
          log_lines = PushLine(<< >>, [Record(st, S_1, Some(S_SLASH_A), Some(S_GET),
                                             None, None, None) EXCEPT !.arrival = 1])
    /\ log_buffer = << >>
    /\ expanded_uids = {S_1 \o S_DASH \o ToDecimal(0)}
    /\ expanded_groups = {[endpoint |-> S_SLASH_A, http_method |-> S_GET]}
    /\ pinned_groups = {}
    /\ selected = 2
    /\ main_scroll_offset = 0
    /\ scroll_mode \in BOOLEAN
    /\ \E o \in offsets : scroll_offsets = MapPut(EmptyMap, 1, o)
    /\ \E c \in cursors : scroll_cursors = MapPut(EmptyMap, 1, c)
    /\ copy_flash_state = None
    /\ filter_text = << >>
    /\ filter_focused = FALSE
    /\ help_screen_visible = FALSE
    /\ selected_uid = Some(S_1 \o S_DASH \o ToDecimal(0))
    /\ last_list_height \in heights
    /\ pc = "call"
    /\ keys = 0
    /\ grouped_messages = << >>
    /\ flat_items = << >>
    /\ returned = << >>

RenderInit == ItemInit(RenderStatements, 0..MaxStoredOffset, {0}, ScrollHeights)

\* one call of render_accordion_item for the record at position 1, as
\* render_grouped_accordions makes it from terminal.draw
RenderItemCall ==
    /\ pc = "call"
    /\ returned' = RenderedContent(log_lines[1].statement, MapGet(scroll_offsets, 1),
                                   DynamicMaxExpandedHeight(last_list_height))
    /\ pc' = "return"
    /\ UNCHANGED << callFrame, grouped_messages, flat_items >>

SpecRender == RenderInit /\ [][RenderItemCall]_vars

----------------------------------------------------------------------------
(* A batch statement in scroll mode: the cursor is moved over the expanded *)
(* record, then the record is drawn or the text at the cursor is copied    *)

\* the largest cursor found stored for the position of the record: one line
\* past the last range of the longest batch statement
MaxCursor == 17

\* two sub-statements of 6 and 7 lines; sub-statements of 2 formatted lines, 2
\* lines the formatter gives nothing for and 1 line, with a blank one between
\* them; text before the first marker; a marker with nothing after it; and a
\* statement without markers
BatchStatementPool ==
    { << BatchLine, SqlLine(6), BatchLine, SqlLine(7) >>,
      << BatchLine, SqlLine(2), BatchLine, BlankLine, BatchLine, SqlLine(0), SqlLine(0),
         BatchLine, SqlLine(1) >>,
      << SqlLine(1), BatchLine, SqlLine(2) >>,
      << BatchLine >>,
      << SqlLine(3) >> }

BatchInit == ItemInit(BatchStatementPool, {0}, 0..MaxCursor, ScrollHeights)

BatchKeyDown == pc = "call" /\ InScroll /\ OnScrollDown /\ UNCHANGED << pc, keys >>
BatchKeyUp == pc = "call" /\ InScroll /\ OnScrollUp /\ UNCHANGED << pc, keys >>
BatchKeyPageDown == pc = "call" /\ InScroll /\ OnScrollPageDown /\ UNCHANGED << pc, keys >>
BatchKeyPageUp == pc = "call" /\ InScroll /\ OnScrollPageUp /\ UNCHANGED << pc, keys >>

\* scroll mode, y, with the text it hands to the clipboard and what the
\* clipboard did with it kept in `returned`
BatchKeyCopy ==
    /\ pc = "call"
    /\ InScroll
    /\ \E flat \in CurrentFlatItems, outcome \in ClipboardOutcomes :
          /\ selected > 0
          /\ IsMessageAt(flat, selected - 1)
          /\ returned' = [text_to_copy |->
                             TextToCopy(flat[selected].msg.statement,
                                        MapGet(scroll_cursors, selected - 1)),
                          clipboard |-> outcome]
          /\ copy_flash_state' = FlashAfterCopy(selected - 1, outcome)
    /\ pc' = "return"
    /\ UNCHANGED << dataVars, expandVars, pinned_groups, selVars, modeVars, scrollVars,
                    filter_text, last_list_height, grouped_messages, flat_items, keys >>

BatchNext ==
    \/ BatchKeyDown
    \/ BatchKeyUp
    \/ BatchKeyPageDown
    \/ BatchKeyPageUp
    \/ BatchKeyCopy
    \/ RenderItemCall

SpecBatch == BatchInit /\ [][BatchNext]_vars

\* every kind of statement, batch or not, blank ones of one to three lines
\* among them, with the cursor and the offset at the top
TotalsStatements ==
    RenderStatements \cup BatchStatementPool \cup
        { << BlankLine, BlankLine >>, << BlankLine, BlankLine, BlankLine >>,
          << BlankLine, BatchLine, BlankLine, BlankLine >> }

TotalsInit == ItemInit(TotalsStatements, {0}, {0}, ScrollHeights)

SpecTotals == TotalsInit /\ [][BatchNext]_vars

----------------------------------------------------------------------------
(* The main loop running on: lines keep arriving while the user works, goes *)
(* into scroll mode and leaves it                                           *)

\* the lines of a behaviour, the one received before it starts included
MaxLiveSent == 3

\* the state after: one line received, its group expanded (Enter), the record
\* selected (j) and expanded (Enter)
LiveInit ==
    /\ chan = << >>
    /\ sent = 1
    /\ log_lines = AsIngested(<< LineGetA >>)
    /\ log_buffer = << >>
    /\ expanded_uids = {S_1 \o S_DASH \o ToDecimal(0)}
    /\ expanded_groups = PoolKeys({LineGetA})
    /\ pinned_groups = {}
    /\ selected = 2
    /\ main_scroll_offset = 0
    /\ scroll_mode = FALSE
    /\ scroll_offsets = EmptyMap
    /\ scroll_cursors = EmptyMap
    /\ copy_flash_state = None
    /\ filter_text = << >>
    /\ filter_focused = FALSE
    /\ help_screen_visible = FALSE
    /\ selected_uid = Some(S_1 \o S_DASH \o ToDecimal(0))
    /\ last_list_height = 10
    /\ pc = "top"
    /\ keys = 0
    /\ grouped_messages = << >>
    /\ flat_items = << >>
    /\ returned = << >>

LiveSend == SendUpTo(MaxLiveSent)

\* lines 197-445: the loop body from its top to the draw, or to its early end
LoopBody == Iterate \/ IterateOverflowPanic \/ IterateDecodeError

\* lines 447-999: event::poll(100 ms) and the handling of what it returned, for
\* a user who expands and collapses records (Enter), enters scroll mode (l) and
\* leaves it (q in scroll mode, Esc), clears the list (c), quits or waits
LoopPoll ==
    \/ KeyNone
    \/ KeyQuit
    \/ KeyScrollExit
    \/ KeyScrollEsc
    \/ KeyEnter
    \/ KeyEnterScrollMode
    \/ KeyClear

LiveNext == LiveSend \/ LoopBody \/ LoopPoll

\* a step of LoopBody as pc shows it: only LoopBody takes pc away from "top",
\* and at "top" one of Iterate and IterateDecodeError can always be taken
LoopBodyRuns == pc = "top" /\ pc' \in {"poll", "error", "panic"}

\* the loop is one thread that never blocks: the drain uses try_recv, the draw
\* returns and event::poll returns after 100 ms at the latest, so the loop body
\* that has been started runs to its end and a poll that has been started
\* returns.  Nothing makes the user press a key.
SpecLive ==
    /\ LiveInit
    /\ [][LiveNext]_vars
    /\ WF_pc(LoopBodyRuns)
    /\ WF_vars(LoopPoll)

----------------------------------------------------------------------------
(* Claims about the main loop *)

Arrivals(recs) == [i \in 1..Len(recs) |-> recs[i].arrival]
LastN(q, n) == IF Len(q) <= n THEN q ELSE SubSeq(q, Len(q) - n + 1, Len(q))
IterationCompletes == pc = "top" /\ pc' = "poll"

\* C1: log_lines never holds more than the cap, and an iteration that inserts
\* records leaves the newest `cap` of (old buffer, then the inserted records) in
\* that order: an insertion at the cap drops index 0, keeps the rest in order and
\* puts the new record at the tail.
C1_CapAndFifo ==
    /\ [](Len(log_lines) <= MaxLogLines)
    /\ [][(IterationCompletes /\ ~scroll_mode) =>
            Arrivals(log_lines') =
                LastN(Arrivals(log_lines) \o Arrivals(chan) \o Arrivals(log_buffer),
                      MaxLogLines)]_vars

\* one more record than the cap was received, no key pressed: the first is gone
C1_Witness ==
    /\ keys = 0
    /\ pc = "poll"
    /\ Len(log_lines) = MaxLogLines
    /\ log_lines[1].arrival = 2
    /\ log_lines[MaxLogLines].arrival = MaxLogLines + 1

\* C2: the records of log_lines are in the order in which their lines arrived
\* on the channel, whatever scroll-mode sessions lay in between.
C2_ArrivalOrder ==
    \A i, j \in 1..Len(log_lines) :
        i < j => log_lines[i].arrival < log_lines[j].arrival

\* C3: while scroll mode lasts, received lines only go to log_buffer and nothing
\* the Navigation Index is computed from changes, so the index stays the same.
C3_ScrollModeFreezes ==
    [][(scroll_mode /\ scroll_mode') =>
          /\ log_lines' = log_lines
          /\ pinned_groups' = pinned_groups
          /\ expanded_groups' = expanded_groups
          /\ filter_text' = filter_text
          /\ selected' = selected
          /\ NavigationIndexes(log_lines', pinned_groups', expanded_groups', filter_text')
                = CurrentFlatItems
          /\ (IterationCompletes => log_buffer' = log_buffer \o chan)]_vars

\* in scroll mode a line was received and held back, and j has moved the cursor
C3_Witness ==
    /\ scroll_mode
    /\ pc = "poll"
    /\ Len(log_buffer) > 0
    /\ selected > 0
    /\ MapGet(scroll_cursors, selected - 1) > 0

\* C4: an iteration outside scroll mode that starts with a Member row selected
\* and does not evict that row's record ends with a Member row of the same uid
\* selected.
C4_SelectionFollowsUid ==
    [][(IterationCompletes /\ ~scroll_mode) =>
          \A before \in CurrentFlatItems :
              (/\ selected > 0
               /\ IsMessageAt(before, selected - 1)
               /\ \E k \in 1..Len(log_lines') :
                     log_lines'[k].arrival = before[selected].msg.arrival)
              => \A after \in NavigationIndexes(log_lines', pinned_groups',
                                                 expanded_groups', filter_text') :
                    /\ selected' > 0
                    /\ IsMessageAt(after, selected' - 1)
                    /\ after[selected'].msg.uid = before[selected].msg.uid]_vars

\* after Enter and j only, the selection is on the third row: the first record,
\* moved there by a record that arrived later and sorts before it
C4_Witness ==
    /\ pc = "poll"
    /\ keys = 2
    /\ selected = 3
    /\ \E flat \in CurrentFlatItems :
          /\ IsMessageAt(flat, 2)
          /\ flat[3].msg.arrival = 1
          /\ flat[3].msg.uid = selected_uid

\* the lines up to the first one that does not decode
RECURSIVE DecodablePrefix(_)
DecodablePrefix(lines) ==
    IF Len(lines) = 0 \/ ~lines[1].valid THEN << >>
    ELSE << lines[1] >> \o DecodablePrefix(Tail(lines))

\* the lines an iteration decodes: none in scroll mode, else those of the
\* channel and then those held back
LinesToDecode == IF scroll_mode THEN << >> ELSE chan \o log_buffer

\* the record is the decoding of the line, with a uid
DecodingOf(record, line) ==
    /\ line.valid
    /\ record.arrival = line.arrival
    /\ IsSome(record.uid)
    /\ [record EXCEPT !.uid = None, !.arrival = 0] = line.msg

\* C13: an iteration adds to log_lines the decodings of the lines before the
\* first undecodable one and nothing else, the undecodable line changing no
\* record; it ends run_tui with an error exactly when a line fails to decode.
C13_MalformedNeverStored ==
    [][(pc = "top" /\ pc' # "top") =>
          LET decoded == DecodablePrefix(LinesToDecode)
          IN  /\ Arrivals(log_lines') =
                    LastN(Arrivals(log_lines) \o Arrivals(decoded), MaxLogLines)
              /\ \A k \in 1..Len(log_lines') :
                    \/ \E i \in 1..Len(log_lines) : log_lines'[k] = log_lines[i]
                    \/ \E i \in 1..Len(decoded) : DecodingOf(log_lines'[k], decoded[i])
              /\ (Len(decoded) < Len(LinesToDecode)) <=> (pc' = "error")]_vars

\* a record was received and, in the same iteration, the line after it failed
\* to decode: the record is stored, run_tui has returned the error
C13_Witness ==
    /\ pc = "error"
    /\ keys = 0
    /\ sent = 2
    /\ Len(log_lines) = 1
    /\ log_lines[1].arrival = 1
    /\ Len(chan) = 0

\* C14: once the loop has taken an undecodable line from the channel, run_tui
\* ends with an error before it polls for a key or returns normally: there is
\* no undecodable line held back by a loop that goes on or has ended without
\* an error.
C14_MalformedEndsRun ==
    pc \in {"poll", "quit"} => \A i \in 1..Len(log_buffer) : log_buffer[i].valid

\* C15: two records that are in log_lines at the same time and got their uid
\* at ingest have different uids.
C15_UidsDistinct ==
    \A i, j \in 1..Len(log_lines) : i # j => log_lines[i].uid # log_lines[j].uid

\* C22: an iteration that renders with scroll_mode false leaves log_buffer
\* empty, and the lines that were held back in it are records of log_lines at
\* that render (the newest of them that the cap has room for).
C22_BufferFlushedBeforeRender ==
    [][(IterationCompletes /\ ~scroll_mode') =>
          /\ log_buffer' = << >>
          /\ \A i \in 1..Len(log_buffer) :
                (i > Len(log_buffer) - MaxLogLines) =>
                    \E k \in 1..Len(log_lines') : log_lines'[k].arrival = log_buffer[i].arrival]_vars

\* the render after the exit from scroll mode: the line held back during
\* scroll mode is in log_lines, behind the line that arrived after it and was
\* still in the channel at the exit
C22_Witness ==
    /\ pc = "poll"
    /\ ~scroll_mode
    /\ log_buffer = << >>
    /\ Arrivals(log_lines) = << 3, 2 >>

\* the uid is the uid of a record of the buffer
UidIn(lines, uid) == \E i \in 1..Len(lines) : lines[i].uid = uid

\* C18: when an iteration outside scroll mode ingests lines and the record with
\* the captured uid is evicted by them, so that no row of the new index has the
\* uid, the selection is at most the number of rows of the new index (at most 1
\* when it has no rows) when the iteration ends.
C18_ClampedAfterEviction ==
    [][(/\ IterationCompletes
        /\ NewLogsReceived
        /\ IsSome(selected_uid')
        /\ UidIn(log_lines, selected_uid')
        /\ ~UidIn(log_lines', selected_uid'))
          => \A after \in NavigationIndexes(log_lines', pinned_groups',
                                             expanded_groups', filter_text') :
                selected' <= Max(Len(after), 1)]_vars

\* C19: when the selected row is a GroupHeader at the start of an iteration
\* that ingests lines outside scroll mode, the selection is the same when the
\* iteration ends, whatever was selected in earlier iterations.
C19_HeaderSelectionStays ==
    [][(/\ IterationCompletes
        /\ NewLogsReceived
        /\ selected > 0
        /\ \A before \in CurrentFlatItems : IsHeaderAt(before, selected - 1))
          => selected' = selected]_vars

\* C24: a key of normal mode that moves the selection from a row of the
\* Navigation Index leaves it on a row of the Navigation Index, when that has
\* rows: selected - 1 is the position of one of them.
C24_NavigationStaysInIndex ==
    [][(/\ pc = "poll" /\ pc' = "top"
        /\ InNormal
        /\ selected' # selected
        /\ \A before \in CurrentFlatItems : selected >= 1 /\ selected - 1 < Len(before))
          => \A after \in NavigationIndexes(log_lines', pinned_groups',
                                             expanded_groups', filter_text') :
                Len(after) > 0 => (selected' >= 1 /\ selected' - 1 < Len(after))]_vars

\* the restore step of the iteration found the captured uid
RestoreFound ==
    /\ IterationCompletes
    /\ NewLogsReceived
    /\ IsSome(selected_uid')
    /\ \E after \in NavigationIndexes(log_lines', pinned_groups', expanded_groups',
                                       filter_text') :
          /\ IsSome(FoundIndex(after, Unwrap(selected_uid')))
          /\ selected' = Unwrap(FoundIndex(after, Unwrap(selected_uid'))) + 1

\* the offset that shows row i in a window of h rows and is nearest to off
NearestOffset(off, i, h) ==
    IF i < off THEN i
    ELSE IF i >= off + h THEN i - h + 1
    ELSE off

\* C25 as claimed: when the restore step finds the uid at position i, then
\* afterwards main_scroll_offset <= i < main_scroll_offset + visible_height,
\* and main_scroll_offset is the old one if i was inside the old window and
\* else the nearest offset whose window holds i.
C25_Claimed_WindowShiftsMinimally ==
    [][RestoreFound =>
          LET i == selected' - 1
              visible_height == SatSub(last_list_height, 2)
          IN  /\ main_scroll_offset' <= i
              /\ i < main_scroll_offset' + visible_height
              /\ main_scroll_offset' = NearestOffset(main_scroll_offset, i, visible_height)]_vars

\* C25 amended: when the restore step finds the uid at position i and at least
\* one row is visible (visible_height >= 1), then afterwards
\* main_scroll_offset <= i < main_scroll_offset + visible_height, and
\* main_scroll_offset is the smaller of the nearest offset whose window holds i
\* (the old offset if i was inside the old window) and the largest offset of
\* the new index, max(0, rows - visible_height).
C25_WindowShiftsMinimallyThenClamps ==
    [][(RestoreFound /\ last_list_height > 2) =>
          LET i == selected' - 1
              visible_height == last_list_height - 2
          IN  /\ main_scroll_offset' <= i
              /\ i < main_scroll_offset' + visible_height
              /\ \A after \in NavigationIndexes(log_lines', pinned_groups',
                                                 expanded_groups', filter_text') :
                    main_scroll_offset' =
                        Min(NearestOffset(main_scroll_offset, i, visible_height),
                            IF Len(after) > visible_height THEN Len(after) - visible_height
                                                           ELSE 0)]_vars

\* the uid was found on the last of four rows with one row visible and the
\* window was moved there
C25_Witness ==
    /\ pc = "poll"
    /\ sent = 3
    /\ Len(chan) = 0
    /\ selected = 4
    /\ IsSome(selected_uid)
    /\ main_scroll_offset = 3

----------------------------------------------------------------------------
(* Claims about the group key *)

\* the key the claim gives a record: the caller label and "CALL" without an
\* HTTP method, else the endpoint, or "N/A", and the HTTP method
ClaimedKey(msg) ==
    LET m == msg.caller_method
        c == msg.caller_class
        caller_label ==
            CASE Len(m) = 1 /\ Len(c) = 1 -> m[1] \o << 32, 105, 110, 32 >> \o c[1]
              [] Len(m) = 1 /\ Len(c) = 0 -> m[1]
              [] Len(m) = 0 /\ Len(c) = 1 -> << 105, 110, 32 >> \o c[1]
              [] Len(m) = 0 /\ Len(c) = 0 -> << 78, 47, 65 >>
    IN  IF Len(msg.http_method) = 0
            THEN << caller_label, << 67, 65, 76, 76 >> >>
            ELSE << IF Len(msg.endpoint) = 1 THEN msg.endpoint[1] ELSE << 78, 47, 65 >>,
                    msg.http_method[1] >>

\* C21: from_message gives a record without http_method the key (caller label,
\* "CALL"), the caller label being "m in C", "m", "in C" or "N/A" by which of
\* caller_method m and caller_class C are present, and a record with
\* http_method the key (endpoint or "N/A", the HTTP method); the keys of two
\* records are equal exactly when both components are the same strings.
C21_KeyOfRecord ==
    pc = "return" =>
        /\ \A i \in 1..Len(log_lines) :
              << returned[i].endpoint, returned[i].http_method >> = ClaimedKey(log_lines[i])
        /\ \A i, j \in 1..Len(log_lines) :
              (returned[i] = returned[j]) <=> (ClaimedKey(log_lines[i]) = ClaimedKey(log_lines[j]))

\* a record with only a caller method and a record with only a caller class
\* got the keys ("m", "CALL") and ("in C", "CALL")
C21_Witness ==
    /\ pc = "return"
    /\ Len(returned) = 2
    /\ returned[1] = [endpoint |-> << 109 >>, http_method |-> << 67, 65, 76, 76 >>]
    /\ returned[2] = [endpoint |-> << 105, 110, 32, 67 >>, http_method |-> << 67, 65, 76, 76 >>]

----------------------------------------------------------------------------
(* Claims about scroll mode *)

\* C5: with the viewport height H and the line total T fixed, the stored offset
\* and cursor of the selected position satisfy offset <= cursor < offset + H and
\* 0 <= offset <= max(0, T - H) after any sequence of j, k, Ctrl+d, Ctrl+u.
C5_ScrollInvariant ==
    LET cursor == MapGet(scroll_cursors, selected - 1)
        offset == MapGet(scroll_offsets, selected - 1)
        T == TotalLines(log_lines[1].statement)
        H == DynamicMaxExpandedHeight(last_list_height)
    IN  T > 0 =>
          /\ offset <= cursor
          /\ cursor < offset + H
          /\ 0 <= offset
          /\ offset <= Max(0, T - H)

\* the cursor is on the last line of a statement longer than the viewport
C5_Witness ==
    LET T == TotalLines(log_lines[1].statement)
        H == DynamicMaxExpandedHeight(last_list_height)
    IN  /\ T > H
        /\ MapGet(scroll_cursors, selected - 1) = T - 1
        /\ MapGet(scroll_offsets, selected - 1) = T - H

\* the cursor and the offset of the selected record before and after a step
\* are those of the step written as cursor, offset -> new_cursor, new_offset
ScrollStepIs(new_cursor, new_offset) ==
    /\ MapGet(scroll_cursors', selected - 1) = new_cursor
    /\ MapGet(scroll_offsets', selected - 1) = new_offset

C26_WindowRestoredAfterResize ==
    [][(scrollVars' # scrollVars) =>
          LET cursor == MapGet(scroll_cursors', selected - 1)
              offset == MapGet(scroll_offsets', selected - 1)
              H == DynamicMaxExpandedHeight(last_list_height)
              drawn == RenderedContent(log_lines[1].statement, offset, H)
          IN  /\ offset <= cursor
              /\ cursor < offset + H
              /\ drawn.first <= cursor
              /\ cursor < drawn.first + drawn.visible]_vars

----------------------------------------------------------------------------
(* Claims about from_messages and create_flat_navigation_structure *)

HeaderRows(flat) == {i \in 1..Len(flat) : flat[i].kind = "GroupHeader"}
MessageRows(flat) == {i \in 1..Len(flat) : flat[i].kind = "Message"}
HeaderBefore(flat, i) ==
    CHOOSE h \in HeaderRows(flat) : h < i /\ \A g \in HeaderRows(flat) : g < i => g <= h

\* C6: the rows are GroupHeader rows and Member rows only, the first row is a
\* GroupHeader, and every Member row belongs to the group of the nearest
\* GroupHeader row before it.
C6_NoOrphanMembers ==
    pc = "return" =>
        /\ Len(flat_items) = Cardinality(HeaderRows(flat_items))
                              + Cardinality(MessageRows(flat_items))
        /\ Len(flat_items) > 0 => flat_items[1].kind = "GroupHeader"
        /\ \A i \in MessageRows(flat_items) :
              /\ \E h \in HeaderRows(flat_items) : h < i
              /\ RequestGroupFromMessage(flat_items[i].msg)
                    = flat_items[HeaderBefore(flat_items, i)].group

\* two expanded groups, each with a Member row
C6_Witness ==
    /\ pc = "return"
    /\ \E i, j \in MessageRows(flat_items) :
          RequestGroupFromMessage(flat_items[i].msg)
              # RequestGroupFromMessage(flat_items[j].msg)

\* C7: whatever order the hash map yields the buckets in, from_messages returns
\* the groups in the order the call returned them in.
C7_GroupingDeterministic ==
    pc = "return" =>
        \A order \in BucketOrders(log_lines) :
            FromMessages(log_lines, pinned_groups, order) = grouped_messages

\* three groups, two of them with the same latest timestamp and pin status
C7_Witness ==
    /\ pc = "return"
    /\ Len(grouped_messages) >= 3
    /\ \E i, j \in 1..Len(grouped_messages) :
          /\ i # j
          /\ LatestTimestamp(grouped_messages[i]) = LatestTimestamp(grouped_messages[j])
          /\ (grouped_messages[i][1] \in pinned_groups)
                = (grouped_messages[j][1] \in pinned_groups)

\* C8: every pinned group comes before every group that is not pinned.
C8_PinnedFirst ==
    pc = "return" =>
        \A i, j \in 1..Len(grouped_messages) :
            (grouped_messages[i][1] \in pinned_groups
                /\ grouped_messages[j][1] \notin pinned_groups) => i < j

\* a pinned group precedes an unpinned group of later activity
C8_Witness ==
    /\ pc = "return"
    /\ Len(grouped_messages) >= 2
    /\ grouped_messages[1][1] \in pinned_groups
    /\ grouped_messages[2][1] \notin pinned_groups
    /\ OptCmp(LatestTimestamp(grouped_messages[1]), LatestTimestamp(grouped_messages[2])) < 0

\* a comes before b in the order of strings: at the first place where they
\* differ a has ended or has the smaller character
LexLess(a, b) ==
    \E k \in 1..(Len(b)) :
        /\ \A x \in 1..(k - 1) : x <= Len(a) /\ a[x] = b[x]
        /\ (k > Len(a) \/ a[k] < b[k])

\* the largest timestamp, in the order of strings, of the members of a group
MaxTimestamp(group) ==
    CHOOSE t \in {group[2][i].timestamp : i \in 1..Len(group[2])} :
        \A i \in 1..Len(group[2]) : ~LexLess(t, group[2][i].timestamp)

\* a goes before b: later activity, else the smaller display-label, else the
\* smaller method-label
GoesBefore(a, b) ==
    \/ LexLess(MaxTimestamp(b), MaxTimestamp(a))
    \/ /\ MaxTimestamp(a) = MaxTimestamp(b)
       /\ LexLess(a[1].endpoint, b[1].endpoint)
    \/ /\ MaxTimestamp(a) = MaxTimestamp(b)
       /\ a[1].endpoint = b[1].endpoint
       /\ LexLess(a[1].http_method, b[1].http_method)

\* C20: of two groups of equal pin status the one of the later maximum member
\* timestamp (timestamps compared as strings) comes first, at equal maximum
\* timestamps the one of the smaller display-label, at equal display-labels
\* the one of the smaller method-label; and on the groups, whose keys are
\* distinct, the comparator is a strict total order: it is never Equal for two
\* of them, Less one way iff Greater the other way, and transitive.
C20_OrderWithinPinStatus ==
    pc = "return" =>
        LET g == grouped_messages
            n == Len(grouped_messages)
            Less(i, j) == GroupCmp(g[i], g[j], pinned_groups) < 0
        IN  /\ \A i, j \in 1..n :
                  (i < j /\ (g[i][1] \in pinned_groups) = (g[j][1] \in pinned_groups))
                      => GoesBefore(g[i], g[j])
            /\ \A i, j \in 1..n :
                  /\ (i # j) => GroupCmp(g[i], g[j], pinned_groups) # 0
                  /\ GroupCmp(g[i], g[j], pinned_groups)
                        = 0 - GroupCmp(g[j], g[i], pinned_groups)
            /\ \A i, j, k \in 1..n : (Less(i, j) /\ Less(j, k)) => Less(i, k)

\* three groups of the same pin status and latest timestamp: the first two
\* with the same display-label, ordered by method-label, the third one with a
\* larger display-label and a smaller method-label than the second
C20_Witness ==
    /\ pc = "return"
    /\ Len(grouped_messages) = 3
    /\ pinned_groups = {}
    /\ MaxTimestamp(grouped_messages[1]) = MaxTimestamp(grouped_messages[3])
    /\ MaxTimestamp(grouped_messages[2]) = MaxTimestamp(grouped_messages[3])
    /\ grouped_messages[1][1].endpoint = grouped_messages[2][1].endpoint
    /\ LexLess(grouped_messages[1][1].http_method, grouped_messages[2][1].http_method)
    /\ LexLess(grouped_messages[2][1].endpoint, grouped_messages[3][1].endpoint)
    /\ LexLess(grouped_messages[3][1].http_method, grouped_messages[2][1].http_method)

\* the record is one of the Member rows
IsMemberRow(flat, m) == \E i \in MessageRows(flat) : flat[i].msg = m
HasHeader(flat, key) == \E i \in HeaderRows(flat) : flat[i].group = key
InsensitiveSubstring(text, filter) == Contains(ToLower(text), ToLower(filter))

\* what the filter decides is visible in the output: a record of an expanded
\* group is kept iff it is a Member row, and a group has a header iff one of its
\* records is kept
KeptAccordingTo(Matches(_)) ==
    /\ \A k \in 1..Len(log_lines) :
          RequestGroupFromMessage(log_lines[k]) \in expanded_groups =>
              (IsMemberRow(flat_items, log_lines[k]) <=> Matches(log_lines[k]))
    /\ \A key \in KeysOf(log_lines) :
          HasHeader(flat_items, key) <=>
              \E k \in 1..Len(log_lines) :
                  RequestGroupFromMessage(log_lines[k]) = key /\ Matches(log_lines[k])

\* the four texts of the claim: the group's two labels, caller class, caller method
ClaimedMatch(m) ==
    \/ InsensitiveSubstring(RequestGroupFromMessage(m).http_method, filter_text)
    \/ InsensitiveSubstring(RequestGroupFromMessage(m).endpoint, filter_text)
    \/ IsSome(m.caller_class) /\ InsensitiveSubstring(Unwrap(m.caller_class), filter_text)
    \/ IsSome(m.caller_method) /\ InsensitiveSubstring(Unwrap(m.caller_method), filter_text)

\* C9 as claimed: with a non-empty filter a record is kept exactly when the
\* filter is a case-insensitive substring of its group's method-label, its
\* group's display-label, its caller class or its caller method.
C9_Claimed_LabelsAreMatched ==
    (pc = "return" /\ Len(filter_text) > 0) => KeptAccordingTo(ClaimedMatch)

\* the texts the record itself holds: the HTTP method, or "CALL" when there is
\* none, and the endpoint, caller class and caller method that are present
RecordTexts(m) ==
    {IF IsSome(m.http_method) THEN Unwrap(m.http_method) ELSE S_CALL}
        \cup {Unwrap(f) : f \in {g \in {m.endpoint, m.caller_class, m.caller_method} : IsSome(g)}}

AmendedMatch(m) == \E text \in RecordTexts(m) : InsensitiveSubstring(text, filter_text)

\* C9 amended: with a non-empty filter a record is kept exactly when the filter
\* is a case-insensitive substring of its HTTP method (of "CALL" when it has
\* none), of its endpoint field when present, of its caller class or of its
\* caller method.
C9_RecordFieldsAreMatched ==
    (pc = "return" /\ Len(filter_text) > 0) => KeptAccordingTo(AmendedMatch)

\* filter "post": a POST record is a Member row, another record is filtered out
C9_Witness ==
    /\ pc = "return"
    /\ filter_text = << 112, 111, 115, 116 >>
    /\ \E i \in MessageRows(flat_items) : flat_items[i].msg.http_method = Some(S_POST)
    /\ \E k \in 1..Len(log_lines) :
          /\ RequestGroupFromMessage(log_lines[k]) \in expanded_groups
          /\ ~IsMemberRow(flat_items, log_lines[k])

Matching(messages) ==
    SelectSeq(messages, LAMBDA m : Len(filter_text) = 0 \/ MatchesFilter(m, filter_text))

\* the Member rows between header row h and the next header row
MembersUnder(flat, h) ==
    LET next == {g \in HeaderRows(flat) : g > h}
        stop == IF next = {} THEN Len(flat) + 1
                ELSE CHOOSE g \in next : \A x \in next : g <= x
    IN  SubSeq(flat, h + 1, stop - 1)

\* C10: the headers are those of the groups with a matching member, once each
\* and in grouping order; a collapsed header has no Member rows; an expanded
\* header has one Member row per matching record, latest timestamp first.
C10_HeadersAndMembers ==
    pc = "return" =>
        LET shown == SelectSeq(grouped_messages, LAMBDA g : Len(Matching(g[2])) > 0)
            headers == SelectSeq(flat_items, LAMBDA r : r.kind = "GroupHeader")
        IN  /\ Len(headers) = Len(shown)
            /\ \A n \in 1..Len(shown) : headers[n].group = shown[n][1]
            /\ \A h \in HeaderRows(flat_items) :
                  LET members == MembersUnder(flat_items, h)
                      group == CHOOSE g \in {shown[n] : n \in 1..Len(shown)} :
                                   g[1] = flat_items[h].group
                  IN  IF flat_items[h].group \in expanded_groups
                        THEN /\ Len(members) = Len(Matching(group[2]))
                             /\ {members[n].msg : n \in 1..Len(members)}
                                   = {Matching(group[2])[n] : n \in 1..Len(members)}
                             /\ \A a, b \in 1..Len(members) :
                                   a < b => StrCmp(members[a].msg.timestamp,
                                                   members[b].msg.timestamp) >= 0
                        ELSE Len(members) = 0

\* a group is left out by the filter, and the expanded group that is shown has
\* its later record first although it arrived second
C10_Witness ==
    /\ pc = "return"
    /\ Len(filter_text) > 0
    /\ Len(grouped_messages) >= 2
    /\ Len(flat_items) = 3
    /\ flat_items[2].kind = "Message"
    /\ flat_items[3].kind = "Message"
    /\ flat_items[2].msg.arrival > flat_items[3].msg.arrival
    /\ StrCmp(flat_items[2].msg.timestamp, flat_items[3].msg.timestamp) > 0

----------------------------------------------------------------------------
(* Claims about the rendering of an expanded record *)

\* C11: the offset used for display is 0 when the content fits the viewport and
\* min(stored offset, T - H) otherwise, so it lies in [0, max(0, T - H)]; when
\* T > 0 the window is not empty: no fallback to the last H lines, no
\* "content not visible" line.
C11_RenderClampsOffset ==
    pc = "return" =>
        LET T == TotalContentLines(log_lines[1].statement)
            H == DynamicMaxExpandedHeight(last_list_height)
            stored == MapGet(scroll_offsets, 1)
        IN  /\ returned.total_content_lines = T
            /\ returned.scroll_offset = IF T <= H THEN 0 ELSE Min(stored, T - H)
            /\ 0 <= returned.scroll_offset
            /\ returned.scroll_offset <= Max(0, T - H)
            /\ T > 0 => /\ returned.visible > 0
                        /\ ~returned.fallback
                        /\ returned.shown = "lines"
                        /\ returned.first = returned.scroll_offset

\* a stored offset beyond T - H on content longer than the viewport
C11_Witness ==
    /\ pc = "return"
    /\ returned.total_content_lines > DynamicMaxExpandedHeight(last_list_height)
    /\ MapGet(scroll_offsets, 1) > returned.scroll_offset
    /\ returned.scroll_offset
          = returned.total_content_lines - DynamicMaxExpandedHeight(last_list_height)

\* the offsets the clamp leaves nothing to do on
ValidOffset(offset, T, H) ==
    /\ 0 <= offset
    /\ offset <= Max(0, T - H)
    /\ T <= H => offset = 0

\* C12: the clamp returns an already valid offset unchanged; in particular,
\* clamping the offset a render displayed gives that offset again.
C12_ClampIdempotent ==
    LET T == TotalContentLines(log_lines[1].statement)
        H == DynamicMaxExpandedHeight(last_list_height)
    IN  /\ \A offset \in 0..MaxStoredOffset :
              ValidOffset(offset, T, H) => ClampedScrollOffset(offset, T, H) = offset
        /\ pc = "return" =>
              /\ ValidOffset(returned.scroll_offset, T, H)
              /\ ClampedScrollOffset(returned.scroll_offset, T, H) = returned.scroll_offset

\* the largest valid offset of content longer than the viewport was stored and
\* is displayed as it is
C12_Witness ==
    /\ pc = "return"
    /\ returned.total_content_lines > DynamicMaxExpandedHeight(last_list_height)
    /\ MapGet(scroll_offsets, 1)
          = returned.total_content_lines - DynamicMaxExpandedHeight(last_list_height)
    /\ returned.scroll_offset = MapGet(scroll_offsets, 1)


----------------------------------------------------------------------------
(* Claims about batch statements *)

\* the marker lines of a statement, with the positions before its first line
\* and after its last line
Boundaries(st) == {0, Len(st) + 1} \cup {i \in 1..Len(st) : st[i].kind = "batch"}

\* the lines between the boundary a and the next boundary
SegmentAfter(st, a) ==
    LET b == CHOOSE b \in Boundaries(st) :
                 b > a /\ \A x \in Boundaries(st) : x > a => b <= x
    IN  SubSeq(st, a + 1, b - 1)

\* the sub-statements of a statement, each named by the boundary before it:
\* the segments that are not blank
SubStatements(st) ==
    {a \in Boundaries(st) : a <= Len(st) /\ NonBlank(SegmentAfter(st, a))}

\* N of a sub-statement: the formatter's line count, else the raw line count
ContentLinesOf(seg) ==
    IF FormattedLineCount(seg) > 0 THEN FormattedLineCount(seg) ELSE Len(seg)

\* the sum of 1 + N + 1 over the sub-statements named in S
RECURSIVE RenderedLinesOf(_, _)
RenderedLinesOf(st, S) ==
    IF S = {} THEN 0
    ELSE LET a == CHOOSE a \in S : TRUE
         IN  (1 + ContentLinesOf(SegmentAfter(st, a)) + 1) + RenderedLinesOf(st, S \ {a})

\* the accumulated line range [start, start + 1 + N + 1) of sub-statement a
RangeStart(st, a) == RenderedLinesOf(st, {x \in SubStatements(st) : x < a})
RangeEnd(st, a) == RangeStart(st, a) + 1 + ContentLinesOf(SegmentAfter(st, a)) + 1
InRange(st, a, c) == c >= RangeStart(st, a) /\ c < RangeEnd(st, a)

\* the text of a sub-statement as it is copied: pretty-printed, else raw
SubStatementText(seg) == [formatted |-> FormattedLineCount(seg) > 0, sql |-> seg]

Copied == pc = "return" /\ "text_to_copy" \in DOMAIN returned
Drawn == pc = "return" /\ "total_content_lines" \in DOMAIN returned

\* C16: when y is pressed on a batch statement with the cursor at c, the text
\* copied is the text (pretty-printed, else raw) of the sub-statement whose
\* range [start, start + 1 + N + 1) contains c; every c below the content-line
\* total T of the scroll handlers and of the renderer lies in such a range, so
\* a sub-statement and not the whole statement is copied; and when c lies in
\* no range the whole statement is copied unchanged.
C16_CopiesSubStatementAtCursor ==
    (Copied /\ ContainsBatchMarker(log_lines[1].statement)) =>
        LET st == log_lines[1].statement
            c == MapGet(scroll_cursors, 1)
            text == returned.text_to_copy
        IN  /\ \A a \in SubStatements(st) :
                  InRange(st, a, c) => text = SubStatementText(SegmentAfter(st, a))
            /\ (c < TotalLines(st) \/ c < TotalContentLines(st)) =>
                  /\ \E a \in SubStatements(st) : InRange(st, a, c)
                  /\ text.sql # st
            /\ (\A a \in SubStatements(st) : ~InRange(st, a, c)) =>
                  text = [formatted |-> FALSE, sql |-> st]

\* y pressed with the cursor on a line of the record, inside the range of a
\* sub-statement that is not the first one, and that sub-statement copied
C16_Witness ==
    /\ Copied
    /\ ContainsBatchMarker(log_lines[1].statement)
    /\ MapGet(scroll_cursors, 1) > 0
    /\ MapGet(scroll_cursors, 1) < TotalLines(log_lines[1].statement)
    /\ \E a \in SubStatements(log_lines[1].statement) :
          /\ RangeStart(log_lines[1].statement, a) > 0
          /\ InRange(log_lines[1].statement, a, MapGet(scroll_cursors, 1))
          /\ returned.text_to_copy.sql = SegmentAfter(log_lines[1].statement, a)

\* C23: when y is pressed and there is no clipboard or set_text fails, nothing
\* changes but the loop going on: the flash, the scroll state, the selection
\* and the records are as before and the handler returns normally; the flash
\* is set, to the position of the record, exactly when set_text succeeded.
C23_CopyFailureChangesNothing ==
    [][(pc = "call" /\ pc' = "return" /\ "clipboard" \in DOMAIN returned') =>
          /\ (returned'.clipboard # "ok") =>
                UNCHANGED << dataVars, expandVars, pinned_groups, selVars, modeVars,
                             scrollVars, copy_flash_state, filter_text, last_list_height,
                             grouped_messages, flat_items, keys >>
          /\ (returned'.clipboard = "ok") <=> (copy_flash_state' = Some(selected - 1))]_vars

\* y was pressed and set_text failed: there is no flash
C23_Witness ==
    /\ Copied
    /\ returned.clipboard = "err"
    /\ copy_flash_state = None

C28_CopiesOfBatchLogicAgree ==
    Drawn =>
        LET st == log_lines[1].statement
            batch_statements == BatchStatements(st, << >>, 0, << >>)
        IN  /\ TotalLines(st) = PageTotalLines(st)
            /\ TotalLines(st) = returned.total_content_lines
            /\ ContainsBatchMarker(st) =>
                  [i \in 1..Len(batch_statements) |-> batch_statements[i].start_line]
                      = RenderBatchHeaders(st, << >>, 0, << >>)

\* a valid line with arrival number n is on the channel or in the holding buffer
PendingIn(channel, buffer, n) ==
    \/ \E i \in 1..Len(channel) : channel[i].valid /\ channel[i].arrival = n
    \/ \E i \in 1..Len(buffer) : buffer[i].valid /\ buffer[i].arrival = n

\* the record of the line with arrival number n is in the log
AppendedTo(log, n) == \E i \in 1..Len(log) : log[i].arrival = n

Pending(n) == PendingIn(chan, log_buffer, n)
Appended(n) == AppendedTo(log_lines, n)

\* the loop has ended: q, a line that does not decode, or a panic
Stopped == pc \in {"quit", "error", "panic"}

\* what a step does to the lines waiting, the loop not ending with an error
LineIsKept(n) ==
    /\ (Pending(n) /\ pc' # "error") =>
          (PendingIn(chan', log_buffer', n) \/ AppendedTo(log_lines', n))
    /\ (Pending(n) /\ pc = "top" /\ pc' = "poll" /\ ~scroll_mode) =>
          AppendedTo(log_lines', n)
    /\ (AppendedTo(log_lines', n) /\ ~Appended(n)) =>
          (Pending(n) /\ ~PendingIn(chan', log_buffer', n))

\* C29: every valid line put on the channel is eventually appended to log_lines,
\* provided the loop never ends and scroll mode is left again and again: an
\* iteration with scroll mode off appends every valid line waiting on the
\* channel or in the holding buffer; until then a waiting line stays waiting (it
\* is not dropped); and a record enters log_lines only for a line that was
\* waiting and no longer is, so no line is appended twice.
C29_ValidLinesEventuallyAppended ==
    /\ \A n \in 1..MaxLiveSent :
          ([]<>(~scroll_mode) /\ []~Stopped) => [](Pending(n) => <>Appended(n))
    /\ [][\A n \in 1..MaxLiveSent : LineIsKept(n)]_vars
    /\ [](\A i, j \in 1..Len(log_lines) :
              log_lines[i].arrival = log_lines[j].arrival => i = j)

\* line 2 was queued in scroll mode and line 3 was received by the iteration
\* after scroll mode ended: both are in log_lines after that iteration
C29_Witness ==
    /\ sent = MaxLiveSent
    /\ pc = "poll"
    /\ ~scroll_mode
    /\ chan = << >>
    /\ log_buffer = << >>
    /\ scroll_cursors # EmptyMap
    /\ Arrivals(log_lines) = << 3, 2 >>

\* total_item_count: the sum of the group sizes
RECURSIVE TotalItemCount(_)
TotalItemCount(groups) ==
    IF Len(groups) = 0 THEN 0
    ELSE Len(groups[1][2]) + TotalItemCount(Tail(groups))

\* the rows of the index that are Message rows
MemberRows(flat) == {k \in 1..Len(flat) : flat[k].kind = "Message"}

\* C30: for any buffer and pin set, with every group of the buffer expanded and
\* an empty filter, the Message rows of the Navigation Index are a permutation
\* of the buffer's records (every record is the record of exactly one Message
\* row and there are as many Message rows as records), no group returned by
\* from_messages is empty, and the group sizes add up to the buffer length.
C30_MembersArePermutationOfBuffer ==
    (pc = "return" /\ KeysOf(log_lines) \subseteq expanded_groups /\ filter_text = << >>) =>
        /\ \A i \in 1..Len(log_lines) :
              Cardinality({k \in MemberRows(flat_items) :
                              flat_items[k].msg = log_lines[i]}) = 1
        /\ Cardinality(MemberRows(flat_items)) = Len(log_lines)
        /\ \A g \in 1..Len(grouped_messages) : Len(grouped_messages[g][2]) > 0
        /\ TotalItemCount(grouped_messages) = Len(log_lines)

\* three records in two groups, one of them pinned, all expanded, no filter
C30_Witness ==
    /\ pc = "return"
    /\ filter_text = << >>
    /\ KeysOf(log_lines) \subseteq expanded_groups
    /\ Len(log_lines) = MaxMsgs
    /\ Len(grouped_messages) = 2
    /\ Cardinality(pinned_groups) = 1
    /\ Cardinality(MemberRows(flat_items)) = MaxMsgs

----------------------------------------------------------------------------
(* Claims about the keys of normal mode *)

\* what Enter acts on when row sel of the index is selected: the key of the
\* group of a GroupHeader row, the uid of a Message row, or nothing
RowTarget(flat, sel) ==
    IF sel > 0 /\ IsHeaderAt(flat, sel - 1)
        THEN [kind |-> "group", of |-> flat[sel].group]
    ELSE IF sel > 0 /\ IsMessageAt(flat, sel - 1) /\ IsSome(flat[sel].msg.uid)
        THEN [kind |-> "uid", of |-> Unwrap(flat[sel].msg.uid)]
    ELSE [kind |-> "none", of |-> << >>]

SymDiff(A, B) == (A \ B) \cup (B \ A)

\* C31: Enter in normal mode on a GroupHeader row changes expanded_groups by
\* exactly that group's key and leaves expanded_uids alone; on a Message row it
\* changes expanded_uids by exactly that record's uid and leaves expanded_groups
\* alone; the buffer, the pin set, the filter text and the scroll maps are
\* unchanged; and afterwards the selected row stands for the same key or uid,
\* so Enter pressed again on it toggles the same element back and both
\* expansion sets are as before.
C31_EnterTogglesOneElement ==
    [][KeyEnter =>
          /\ \A flat \in CurrentFlatItems :
                LET target == RowTarget(flat, selected)
                IN  /\ target.kind = "group" =>
                          /\ SymDiff(expanded_groups, expanded_groups') = {target.of}
                          /\ expanded_uids' = expanded_uids
                    /\ target.kind = "uid" =>
                          /\ SymDiff(expanded_uids, expanded_uids') = {target.of}
                          /\ expanded_groups' = expanded_groups
                    /\ \A after \in NavigationIndexes(log_lines', pinned_groups',
                                                       expanded_groups', filter_text') :
                          RowTarget(after, selected') = target
          /\ log_lines' = log_lines
          /\ log_buffer' = log_buffer
          /\ pinned_groups' = pinned_groups
          /\ filter_text' = filter_text
          /\ scroll_offsets' = scroll_offsets
          /\ scroll_cursors' = scroll_cursors]_vars

\* Enter was pressed on a header and on a record: a group is expanded, one of
\* its records is expanded too, and the record is the selected row
C31_Witness ==
    /\ pc = "top"
    /\ InNormal
    /\ expanded_groups # {}
    /\ expanded_uids # {}
    /\ \E flat \in CurrentFlatItems :
          /\ RowTarget(flat, selected).kind = "uid"
          /\ RowTarget(flat, selected).of \in expanded_uids

\* C32: t in normal mode changes nothing when a Message row is selected; when
\* a GroupHeader row is selected it changes the pin set by exactly that group's
\* key, leaves the buffer, the expansion sets and the filter text alone, and
\* afterwards the selected row is the GroupHeader row of the same group in the
\* Navigation Index computed with the new pin set.
C32_PinTogglesAndFollowsHeader ==
    [][KeyTogglePin =>
          \A flat \in CurrentFlatItems :
             /\ (selected > 0 /\ IsMessageAt(flat, selected - 1)) =>
                    /\ pinned_groups' = pinned_groups
                    /\ selected' = selected
                    /\ OnNothing
             /\ (selected > 0 /\ IsHeaderAt(flat, selected - 1)) =>
                    /\ SymDiff(pinned_groups, pinned_groups') = {flat[selected].group}
                    /\ log_lines' = log_lines
                    /\ expanded_groups' = expanded_groups
                    /\ expanded_uids' = expanded_uids
                    /\ filter_text' = filter_text
                    /\ \A after \in NavigationIndexes(log_lines', pinned_groups',
                                                       expanded_groups', filter_text') :
                          /\ selected' > 0
                          /\ IsHeaderAt(after, selected' - 1)
                          /\ after[selected'].group = flat[selected].group]_vars

\* two groups, the older one pinned from the second row: it is now the first
\* row and that row is selected
C32_Witness ==
    /\ pc = "top"
    /\ Cardinality(KeysOf(log_lines)) = 2
    /\ pinned_groups = {RequestGroupFromMessage(LineGetA)}
    /\ selected = 1
    /\ \A flat \in CurrentFlatItems :
          /\ IsHeaderAt(flat, 0)
          /\ flat[1].group = RequestGroupFromMessage(LineGetA)
    /\ \A flat \in NavigationIndexes(log_lines, {}, expanded_groups, filter_text) :
          /\ IsHeaderAt(flat, 0)
          /\ flat[1].group = RequestGroupFromMessage(LineCall)

\* C33: c in normal mode empties log_lines, both expansion sets and both
\* scroll maps, sets selected_uid to none, the selection to the first position
\* and main_scroll_offset to 0, and leaves the pin set and the filter text as
\* they are; the buffer is emptied in no other mode; and the state c leaves is
\* the state of a fresh start in everything the grouping and the ordering of
\* later records depend on (the buffer, the holding buffer, the expansion sets,
\* the modes), the pin set and the filter text excepted.
C33_ClearResetsAllButPinsAndFilter ==
    /\ [][KeyClear =>
             /\ log_lines' = << >>
             /\ expanded_uids' = {}
             /\ expanded_groups' = {}
             /\ scroll_offsets' = EmptyMap
             /\ scroll_cursors' = EmptyMap
             /\ selected_uid' = None
             /\ selected' = 1
             /\ main_scroll_offset' = 0
             /\ pinned_groups' = pinned_groups
             /\ filter_text' = filter_text
             /\ log_buffer' = << >>
             /\ ~scroll_mode' /\ ~filter_focused' /\ ~help_screen_visible'
             /\ chan' = chan]_vars
    /\ [][(log_lines # << >> /\ log_lines' = << >>) => (pc = "poll" /\ InNormal)]_vars

\* every line sent was received and decoded, a group was pinned, and the
\* buffer is empty again: c was pressed and the pin is still there
C33_Witness ==
    /\ pc = "top"
    /\ sent > 0
    /\ chan = << >>
    /\ log_buffer = << >>
    /\ log_lines = << >>
    /\ expanded_groups = {}
    /\ selected = 1
    /\ pinned_groups # {}

----------------------------------------------------------------------------
(* The scroll state after scroll mode: one expanded record is scrolled,    *)
(* scroll mode is left, a later record of the same group arrives and is    *)
(* expanded, and the list is drawn                                         *)

\* the state after: one line received, its group expanded (Enter), the record
\* selected (j) and expanded (Enter), scroll mode entered (l)
StaleInit ==
    /\ chan = << >>
    /\ sent = 1
    /\ \E st \in ScrollStatements :
          log_lines = PushLine(<< >>, [Record(st, S_1, Some(S_SLASH_A), Some(S_GET),
                                             None, None, None) EXCEPT !.arrival = 1])
    /\ log_buffer = << >>
    /\ expanded_uids = {S_1 \o S_DASH \o ToDecimal(0)}
    /\ expanded_groups = {[endpoint |-> S_SLASH_A, http_method |-> S_GET]}
    /\ pinned_groups = {}
    /\ selected = 2
    /\ main_scroll_offset = 0
    /\ scroll_mode = TRUE
    /\ scroll_offsets = MapPut(EmptyMap, 1, 0)
    /\ scroll_cursors = MapPut(EmptyMap, 1, 0)
    /\ copy_flash_state = None
    /\ filter_text = << >>
    /\ filter_focused = FALSE
    /\ help_screen_visible = FALSE
    /\ selected_uid = Some(S_1 \o S_DASH \o ToDecimal(0))
    /\ last_list_height = 12
    /\ pc = "poll"
    /\ keys = 0
    /\ grouped_messages = << >>
    /\ flat_items = << >>
    /\ returned = << >>

\* the listener sends one more line: a record of the same group with a later
\* timestamp and a statement of any length
StaleSend ==
    /\ pc \in {"top", "poll"}
    /\ sent < 2
    /\ \E st \in ScrollStatements :
          chan' = Append(chan, [valid |-> TRUE,
                                msg |-> Record(st, S_2, Some(S_SLASH_A), Some(S_GET),
                                               None, None, None),
                                arrival |-> sent + 1])
    /\ sent' = sent + 1
    /\ UNCHANGED << log_lines, log_buffer, expandVars, pinned_groups, selected,
                    main_scroll_offset, modeVars, scrollVars,
                    copy_flash_state, filter_text, selected_uid, last_list_height,
                    pc, keys, outVars >>

\* what terminal.draw shows of one expanded member: render_grouped_accordions
\* passes the member's flat_index to render_accordion_item, which looks the
\* stored offset up under it
StaleDraw ==
    /\ pc = "poll"
    /\ ~help_screen_visible
    /\ \E flat \in CurrentFlatItems : \E flat_index \in 0..(Len(flat) - 1) :
          /\ IsMessageAt(flat, flat_index)
          /\ IsSome(flat[flat_index + 1].msg.uid)
          /\ Unwrap(flat[flat_index + 1].msg.uid) \in expanded_uids
          /\ returned' = [index |-> flat_index,
                          arrival |-> flat[flat_index + 1].msg.arrival,
                          content |-> RenderedContent(
                                          flat[flat_index + 1].msg.statement,
                                          MapGet(scroll_offsets, flat_index),
                                          DynamicMaxExpandedHeight(last_list_height))]
    /\ pc' = "return"
    /\ UNCHANGED << callFrame, grouped_messages, flat_items >>

StaleNext ==
    \/ StaleSend
    \/ Iterate
    \/ StaleDraw
    \/ KeyScrollDown
    \/ KeyScrollUp
    \/ KeyScrollPageDown
    \/ KeyScrollPageUp
    \/ KeyScrollExit
    \/ KeyUp
    \/ KeyDown
    \/ KeyEnter

SpecStale == StaleInit /\ [][StaleNext]_vars

\* the record with the given arrival number, as stored in the buffer
StoredRecord(n) == CHOOSE m \in {log_lines[i] : i \in 1..Len(log_lines)} : m.arrival = n

\* C34: the scroll maps are written only in scroll mode, for the position of
\* the selected row, and leaving scroll mode (h) keeps them; the record scrolled
\* here is the first one received and no other record is ever the selected row
\* of scroll mode; and whatever expanded record the draw finds at a position is
\* shown from the offset stored under that position (clamped to its own
\* content), whether or not it is the record that was scrolled.
C34_ScrollStateStaysWithPosition ==
    /\ [][scrollVars' # scrollVars =>
             /\ scroll_mode /\ scroll_mode'
             /\ DOMAIN scroll_offsets' = {selected - 1}
             /\ DOMAIN scroll_cursors' = {selected - 1}]_vars
    /\ [][KeyScrollExit => UNCHANGED scrollVars]_vars
    /\ [](scroll_mode =>
             \A flat \in CurrentFlatItems :
                /\ IsMessageAt(flat, selected - 1)
                /\ flat[selected].msg.arrival = 1)
    /\ [](pc = "return" =>
             returned.content.scroll_offset =
                 ClampedScrollOffset(MapGet(scroll_offsets, returned.index),
                                     TotalContentLines(StoredRecord(returned.arrival).statement),
                                     DynamicMaxExpandedHeight(last_list_height)))

\* the second record, which was never the selected row of scroll mode, is drawn
\* at the position the first record was scrolled at, from a non-zero offset
C34_Witness ==
    /\ pc = "return"
    /\ returned.arrival = 2
    /\ returned.index = 1
    /\ returned.content.scroll_offset > 0
    /\ returned.content.shown = "lines"
    /\ ~scroll_mode

----------------------------------------------------------------------------
(* Claims about the modes *)

\* the selected row is a member whose record is expanded
SelectedIsExpandedMember(flat, sel, uids) ==
    /\ sel > 0
    /\ IsMessageAt(flat, sel - 1)
    /\ IsSome(flat[sel].msg.uid)
    /\ Unwrap(flat[sel].msg.uid) \in uids

\* C35: scroll mode begins only in a step of normal mode (key l) taken with the
\* selected row a member whose uid is in expanded_uids, and that step stores
\* offset 0 and cursor 0 under the row's position; and in every reachable state
\* with scroll_mode true the selected row is a member of the Navigation Index
\* whose record is expanded.
C35_ScrollModeOnExpandedMember ==
    /\ [][(~scroll_mode /\ scroll_mode') =>
             /\ pc = "poll" /\ InNormal
             /\ selected' = selected
             /\ \A flat \in CurrentFlatItems :
                   SelectedIsExpandedMember(flat, selected, expanded_uids)
             /\ (selected - 1) \in DOMAIN scroll_offsets'
             /\ (selected - 1) \in DOMAIN scroll_cursors'
             /\ scroll_offsets'[selected - 1] = 0
             /\ scroll_cursors'[selected - 1] = 0]_vars
    /\ [](scroll_mode =>
             \A flat \in CurrentFlatItems :
                SelectedIsExpandedMember(flat, selected, expanded_uids))

\* scroll mode, entered on the second of two rows, while another line waits on
\* the channel
C35_Witness ==
    /\ scroll_mode
    /\ pc = "top"
    /\ selected = 2
    /\ Len(chan) > 0
    /\ MapGet(scroll_offsets, 1) = 0
    /\ 1 \in DOMAIN scroll_cursors

\* the number of mode flags that are set
ModeFlagsSet ==
    Cardinality({i \in 1..3 : << help_screen_visible, scroll_mode, filter_focused >>[i]})

\* C36: in every reachable state at most one of help_screen_visible,
\* scroll_mode and filter_focused is true; and a key press taken with one of
\* them set changes only what the key table of that mode can change (help:
\* the help flag; scroll: the scroll flag, the scroll maps, expanded_uids and
\* the copy flash; filter: the filter flag and the filter text).
C36_AtMostOneMode ==
    /\ [](ModeFlagsSet <= 1)
    /\ [][(pc = "poll" /\ pc' = "top") =>
             /\ help_screen_visible =>
                   UNCHANGED << dataVars, expandVars, pinned_groups, selVars, scroll_mode,
                                filter_focused, scrollVars, copy_flash_state, filter_text >>
             /\ scroll_mode =>
                   UNCHANGED << dataVars, expanded_groups, pinned_groups, selVars,
                                filter_focused, help_screen_visible, filter_text >>
             /\ filter_focused =>
                   UNCHANGED << dataVars, expandVars, pinned_groups, selVars, scroll_mode,
                                help_screen_visible, scrollVars, copy_flash_state >>]_vars

\* a key was typed into the filter while a record is expanded, after which
\* scroll mode and the help screen are still off
C36_Witness ==
    /\ pc = "top"
    /\ filter_focused
    /\ Len(filter_text) > 0
    /\ expanded_uids # {}
    /\ ~scroll_mode
    /\ ~help_screen_visible

----------------------------------------------------------------------------
(* Claims about the terminal *)

\* the terminal as run_tui has left it at a position of the loop:
\* enable_raw_mode and EnterAlternateScreen run before the loop, and
\* disable_raw_mode and LeaveAlternateScreen come after the loop, where only
\* `break` leads; a `?` or a panic inside the loop leaves the function before
\* them
TerminalAt(position) ==
    IF position = "quit"
        THEN [raw_mode |-> FALSE, alternate_screen |-> FALSE]
        ELSE [raw_mode |-> TRUE, alternate_screen |-> TRUE]

\* run_tui has returned: by `break` and the lines after the loop, or by `?`
HasReturned == pc \in {"quit", "error"}

\* C37: whenever run_tui has returned, by the quit key or by a decode error in
\* the ingest step, raw mode is disabled and the alternate screen has been left.
C37_TerminalRestoredOnReturn ==
    HasReturned =>
        /\ ~TerminalAt(pc).raw_mode
        /\ ~TerminalAt(pc).alternate_screen

----------------------------------------------------------------------------
(* Claims about the expansion set *)

\* the uids of the records in a buffer
UidsOf(lines) == {Unwrap(lines[i].uid) : i \in {j \in 1..Len(lines) : IsSome(lines[j].uid)}}

\* C38: every uid in expanded_uids is the uid of a record currently in
\* log_lines.
C38_ExpandedUidsAreStored ==
    expanded_uids \subseteq UidsOf(log_lines)

----------------------------------------------------------------------------
(* render_grouped_accordions beside create_flat_navigation_structure *)

\* the loop of render_grouped_accordions from group g on: `items` is the list
\* built so far and flat_index the running index.  An item records what the
\* call that builds it is given: render_group_header the group, the number of
\* matching messages and the two marks, render_accordion_item the flat_index
\* and the message.  The filter closure and the sort are those of
\* create_flat_navigation_structure, character for character.
RECURSIVE RenderGroupsFromHeadersUncounted(_, _, _, _, _, _, _)
RenderGroupsFromHeadersUncounted(groups, g, items, flat_index, expanded, filter, pinned) ==
    IF g > Len(groups) THEN items
    ELSE LET group == groups[g][1]
             filtered_messages == FilteredMessages(groups[g][2], filter)
             is_group_expanded == group \in expanded
             sorted_messages == IF is_group_expanded THEN SortMessages(filtered_messages)
                                ELSE << >>
             group_item == [kind |-> "GroupHeader", group |-> group,
                            count |-> Len(filtered_messages),
                            is_group_expanded |-> is_group_expanded,
                            is_pinned |-> group \in pinned]
             message_items == [i \in 1..Len(sorted_messages) |->
                                  [kind |-> "Message", msg |-> sorted_messages[i],
                                   index |-> flat_index + (i - 1)]]
         IN  IF Len(filtered_messages) = 0
               THEN RenderGroupsFromHeadersUncounted(groups, g + 1, items, flat_index,
                                                     expanded, filter, pinned)
               ELSE RenderGroupsFromHeadersUncounted(groups, g + 1,
                                     items \o << group_item >> \o message_items,
                                     flat_index + Len(sorted_messages),
                                     expanded, filter, pinned)

RECURSIVE RenderGroupsFrom(_, _, _, _, _, _, _)
RenderGroupsFrom(groups, g, items, flat_index, expanded, filter, pinned) ==
    IF g > Len(groups) THEN items
    ELSE LET group == groups[g][1]
             filtered_messages == FilteredMessages(groups[g][2], filter)
             is_group_expanded == group \in expanded
             sorted_messages == IF is_group_expanded THEN SortMessages(filtered_messages)
                                ELSE << >>
             group_item == [kind |-> "GroupHeader", group |-> group,
                            count |-> Len(filtered_messages),
                            is_group_expanded |-> is_group_expanded,
                            is_pinned |-> group \in pinned]
             message_items == [i \in 1..Len(sorted_messages) |->
                                  [kind |-> "Message", msg |-> sorted_messages[i],
                                   index |-> flat_index + 1 + (i - 1)]]
         IN  IF Len(filtered_messages) = 0
               THEN RenderGroupsFrom(groups, g + 1, items, flat_index,
                                     expanded, filter, pinned)
               ELSE RenderGroupsFrom(groups, g + 1,
                                     items \o << group_item >> \o message_items,
                                     flat_index + 1 + Len(sorted_messages),
                                     expanded, filter, pinned)

\* render_grouped_accordions
RenderGroupedAccordions(groups, expanded, filter, pinned) ==
    RenderGroupsFrom(groups, 1, << >>, 0, expanded, filter, pinned)

\* one pass of the loop on a buffer at rest: the handlers' from_messages and
\* create_flat_navigation_structure, and the draw's own from_messages (another
\* HashMap, so another iteration order) and render_grouped_accordions
DrawCall ==
    /\ pc = "call"
    /\ \E order \in BucketOrders(log_lines) :
          /\ grouped_messages' = FromMessages(log_lines, pinned_groups, order)
          /\ flat_items' = CreateFlatNavigationStructure(
                               FromMessages(log_lines, pinned_groups, order),
                               expanded_groups, filter_text)
    /\ \E order \in BucketOrders(log_lines) :
          returned' = RenderGroupedAccordions(
                          FromMessages(log_lines, pinned_groups, order),
                          expanded_groups, filter_text, pinned_groups)
    /\ pc' = "return"
    /\ UNCHANGED callFrame

SpecDraw == NavInit /\ [][DrawCall]_vars

\* C39: for every buffer, pin set, expanded-group set and filter text the list
\* of render_grouped_accordions has one item per row of the Navigation Index,
\* in the same order: a header item for a header row of the same group, a
\* member item for a member row of the same record; and the flat_index passed
\* for a member is the position of its row in the Navigation Index (counted
\* from 0, the value the handlers call actual_index).
C39_RenderFollowsNavigationIndex ==
    pc = "return" =>
        /\ Len(returned) = Len(flat_items)
        /\ \A i \in 1..Len(flat_items) :
              /\ returned[i].kind = flat_items[i].kind
              /\ flat_items[i].kind = "GroupHeader" =>
                    returned[i].group = flat_items[i].group
              /\ flat_items[i].kind = "Message" =>
                    /\ returned[i].msg = flat_items[i].msg
                    /\ returned[i].index = i - 1

\* two groups drawn, the first one collapsed and the second one expanded over
\* two members: the index of the last member counts both headers and the
\* member before it
C39_Witness ==
    /\ pc = "return"
    /\ Len(returned) = 4
    /\ returned[1].kind = "GroupHeader"
    /\ ~returned[1].is_group_expanded
    /\ returned[2].kind = "GroupHeader"
    /\ returned[3].kind = "Message"
    /\ returned[4].kind = "Message"
    /\ returned[4].index = 3
    /\ flat_items[4].kind = "Message"

----------------------------------------------------------------------------
(* Claims about the arithmetic of the restore step *)

\* C40: in no pass of the loop that restores the selection (new lines were
\* received, a uid was captured and it is found in the new Navigation Index) is
\* the branch that evaluates visible_height - 1 taken with visible_height = 0.
C40_RestoreNeverUnderflows ==
    [][(pc = "top" /\ pc' \in {"poll", "panic"} /\ NewLogsReceived /\ IsSome(selected_uid')) =>
          \A after \in NavigationIndexes(log_lines', pinned_groups, expanded_groups,
                                         filter_text) :
             LET found == FoundIndex(after, Unwrap(selected_uid'))
             IN  IsSome(found) =>
                    ~RestoreUnderflows(Unwrap(found), SatSub(last_list_height, 2))]_vars

====
